---- MODULE Spec2Model ----
(***************************************************************************)
(* State-machine model of the spirits server: the Express route handlers   *)
(* of server/routes.ts (both revisions kept in the tree), the Drizzle      *)
(* storage layer and the completion-provider wrapper.                      *)
(*                                                                         *)
(* Rows are records, tables are sequences in insertion order, a serial     *)
(* primary key is a counter that a delete never rewinds.  The confidence   *)
(* multiplier is a double in the code; here it is held in millionths       *)
(* (DefaultMultiplier = 1.0) and a product is rounded to the nearest       *)
(* millionth.                                                              *)
(***************************************************************************)
EXTENDS Integers, Sequences, FiniteSets, TLC

VARIABLES
    entries,        \* conversation_entries rows
    analyses,       \* model_analyses rows
    calls,          \* outbound_calls rows
    latencyLogs,    \* latency_logs rows
    ratings,        \* response_ratings rows
    models,         \* ai_models rows; the id of a row is its index, a deleted row is Undefined
    submissions,    \* pending_submissions rows; the id of a row is its index
    nextEntryId,    \* serial of conversation_entries
    nextAnalysisId, \* serial of model_analyses
    lastRes,        \* the HTTP response of the request that completed last
    served,         \* how many requests have been accepted so far
    reqs            \* requests in flight (handlers suspended at an await)

vars == <<entries, analyses, calls, latencyLogs, ratings, models, submissions,
          nextEntryId, nextAnalysisId, lastRes, served, reqs>>

store == <<entries, analyses, calls, latencyLogs, ratings, models, submissions,
           nextEntryId, nextAnalysisId>>

(*************************** bounds of the model ***************************)
SeedModels == 2       \* personas inserted by the seed
MaxRequests == 4      \* requests served in a run of Spec
MaxQueueRequests == 3 \* requests served in a run of SpecQueue
MaxRateRequests == 4  \* requests served in a run of SpecRate
MaxAdminRequests == 4 \* requests served in a run of SpecAdmin
MaxOrchRequests == 3  \* requests served in a run of SpecOrch
MaxPassRequests == 2  \* requests accepted in a run of SpecPass
MaxRaceRequests == 4  \* requests accepted in a run of SpecRateRace and SpecQueueRace
MaxVoiceRequests == 3 \* requests served in a run of SpecVoice
MaxViewRequests == 5  \* requests served in a run of SpecView
MaxApproveRequests == 3 \* requests served in a run of SpecApprove
MaxLedRequests == 3     \* requests served in a run of SpecLed
MaxCallRequests == 3        \* requests served in a run of SpecCalls
MaxResetRequests == 3       \* requests accepted in a run of SpecResetRace
MaxTriggerRequests == 4     \* requests served in a run of SpecTrigger
MaxSeedRequests == 4    \* requests and restarts in a run of SpecSeed
MaxLatencyRequests == 1 \* requests accepted in a run of SpecLatency
MaxDecayRequests == 2 \* views read in a run of SpecDecay
MaxStaleness == 8     \* human turns after the analysed Entry in SpecDecay

(**************************** program constants ***************************)
DefaultMultiplier == 1000000   \* 1.0
MinMultiplier == 100000        \* 0.1
MaxMultiplier == 1500000       \* 1.5

\* null in a nullable text column
Null == "NULL"
\* undefined: the row a lookup did not find
Undefined == [undefined |-> TRUE]
\* the exception a rejected promise raises at its await
Thrown == [thrown |-> TRUE]

\* the room the seed creates, which the trigger handler reads
DefaultRoom == 1
Rooms == {DefaultRoom, DefaultRoom + 1}

\* JavaScript truthiness of a nullable string: !s
Falsy(s) == s \in {Null, ""}

\* An || that always takes its right operand.
OrElseRight(a, b) == b

\* a || b on nullable strings
OrElse(a, b) == IF Falsy(a) THEN b ELSE a

PersonaNames == <<"Stoic Philosopher", "Joscha Bach", "Socratic Questioner", "Absurdist", "Zen Monk">>

HumanSpeakers == {"Alice"}
Contents == {"What is the meaning of life?"}

Range(s) == {s[i] : i \in 1..Len(s)}


(******************************* storage ***********************************)
NewModel(n) == [name |-> n, isActive |-> TRUE, confidenceMultiplier |-> DefaultMultiplier]

ModelIds == {i \in 1..Len(models) : models[i] # Undefined}

\* getAiModel: the row or undefined
getAiModel(id) == IF id \in ModelIds THEN models[id] ELSE Undefined

\* getAllAiModels: the ids of the rows WHERE is_active, in table order
getAllAiModels == SelectSeq([i \in 1..Len(models) |-> i], LAMBDA i : i \in ModelIds /\ models[i].isActive)

getAnalysesByRoom(r) == SelectSeq(analyses, LAMBDA a : a.roomId = r)

getAnalysisById(id) ==
    LET hit == SelectSeq(analyses, LAMBDA a : a.id = id)
    IN  IF hit = <<>> THEN Undefined ELSE hit[1]

getRatingByAnalysis(aid) ==
    LET hit == SelectSeq(ratings, LAMBDA r : r.analysisId = aid)
    IN  IF hit = <<>> THEN Undefined ELSE hit[1]

\* An update without its WHERE clause.
markAnalysisTriggeredAll(rows, id) ==
    [i \in 1..Len(rows) |-> [rows[i] EXCEPT !.isTriggered = TRUE]]

markAnalysisTriggered(rows, id) ==
    [i \in 1..Len(rows) |-> IF rows[i].id = id THEN [rows[i] EXCEPT !.isTriggered = TRUE] ELSE rows[i]]

(*************************** completion provider ***************************)
\* What the backend does with one analysis request.
JsonReply(c, resp) == [kind |-> "json", shouldSpeak |-> c > 50, confidence |-> c,
                       analysis |-> "insight", response |-> resp]
Unparseable == [kind |-> "text"]
ProviderError == [kind |-> "error"]
Hang == [kind |-> "hang"]

Replies == {JsonReply(90, "proposal"), Unparseable, ProviderError}

\* A parse without its catch: the SyntaxError of JSON.parse leaves the function.
analyzeConversationNoFallback(reply) ==
    CASE reply.kind \in {"error", "text"} -> Thrown
      [] OTHER -> [shouldSpeak |-> reply.shouldSpeak, confidence |-> reply.confidence,
                   analysis |-> reply.analysis, response |-> reply.response]

\* analyzeConversation: the parsed object, the fallback of the catch around
\* JSON.parse, or the exception chatCompletion raised.
analyzeConversation(reply) ==
    CASE reply.kind = "error" -> Thrown
      [] reply.kind = "text" -> [shouldSpeak |-> FALSE, confidence |-> 0,
                                 analysis |-> "Failed to parse response", response |-> ""]
      [] OTHER -> [shouldSpeak |-> reply.shouldSpeak, confidence |-> reply.confidence,
                   analysis |-> reply.analysis, response |-> reply.response]

\* The row createModelAnalysis inserts for a result.
AnalysisRow(id, roomId, modelId, entryId, result) ==
    [id |-> id, roomId |-> roomId, modelId |-> modelId, conversationEntryId |-> entryId,
     analysis |-> OrElse(result.analysis, "No analysis provided"),
     shouldSpeak |-> result.shouldSpeak,
     confidence |-> result.confidence,
     proposedResponse |-> OrElse(result.response, Null),
     isTriggered |-> FALSE]

\* The row logLatency hands to storage.createLatencyLog:
\* {.., success, error, roomId, modelId, ..}
LatencyLog(roomId, modelId, success) == [roomId |-> roomId, modelId |-> modelId, success |-> success]

\* A wrapper whose catch does not clear the flag.
logLatencyUnflagged(settled, roomId, modelId) ==
    [settled |-> settled, log |-> LatencyLog(roomId, modelId, TRUE)]

\* logLatency, once the promise of fn has settled: try { result = await fn() }
\* catch (err) { success = false; throw err } finally { createLatencyLog(..) }
\* return result.  It gives what its caller gets and the row it writes.
logLatency(settled, roomId, modelId) ==
    [settled |-> settled, log |-> LatencyLog(roomId, modelId, settled # Thrown)]

\* The rows of an analysis pass: one for each persona called.
LatencyRows(ids, replies, roomId) ==
    [i \in 1..Len(ids) |-> logLatency(analyzeConversation(replies[ids[i]]), roomId, ids[i]).log]

\* A loop whose first failing persona ends the pass: the exception leaves the
\* loop and reaches the handler's outer catch.
RECURSIVE AnalysisLoopNoCatch(_, _, _, _, _)
AnalysisLoopNoCatch(ids, replies, roomId, entryId, acc) ==
    IF ids = <<>> THEN [rows |-> acc, threw |-> FALSE]
    ELSE LET result == logLatency(analyzeConversation(replies[Head(ids)]), roomId, Head(ids)).settled
         IN  IF result = Thrown
             THEN [rows |-> acc, threw |-> TRUE]
             ELSE AnalysisLoopNoCatch(Tail(ids), replies, roomId, entryId,
                      Append(acc, AnalysisRow(nextAnalysisId + Len(acc), roomId, Head(ids), entryId, result)))

\* for (const model of models) { try { analyze; createModelAnalysis } catch { log } }
RECURSIVE AnalysisLoop(_, _, _, _, _)
AnalysisLoop(ids, replies, roomId, entryId, acc) ==
    IF ids = <<>> THEN [rows |-> acc, threw |-> FALSE]
    ELSE LET result == logLatency(analyzeConversation(replies[Head(ids)]), roomId, Head(ids)).settled
         IN  AnalysisLoop(Tail(ids), replies, roomId, entryId,
                 IF result = Thrown
                 THEN acc
                 ELSE Append(acc, AnalysisRow(nextAnalysisId + Len(acc), roomId, Head(ids), entryId, result)))

Entry(id, roomId, speaker, content, origin) ==
    [id |-> id, roomId |-> roomId, speaker |-> speaker, content |-> content, origin |-> origin]

\* What is recorded of the request served last: the route, the id in its path
\* (for a content request, the id of the Entry it created), the rating in its
\* body (for an approval that went through, the two overrides in its body; 0
\* when the route takes none), the status and error text of the
\* response, and what the provider replied for each persona of its analysis
\* pass (empty when the request ran none).
NoPass == <<>>
\* the array a status view responds with (empty for the other routes)
NoBody == <<>>
Res(op, id, status, error) ==
    [op |-> op, id |-> id, arg |-> 0, status |-> status, error |-> error, pass |-> NoPass, body |-> NoBody]
ResRate(id, rating, status, error) == [Res("rate", id, status, error) EXCEPT !.arg = rating]
ResBody(op, id, rows) == [Res(op, id, 200, "") EXCEPT !.body = rows]
ResPass(op, id, status, error, replies) == [Res(op, id, status, error) EXCEPT !.pass = replies]
ResApprove(id, status, error, replies, editedSpeaker, editedContent) ==
    [ResPass("approve", id, status, error, replies) EXCEPT !.arg = <<editedSpeaker, editedContent>>]

\* res.status(..).json(..): the handler is done.
Respond(res) == lastRes' = res /\ served' = served + 1

(******************************** Init *************************************)
Init ==
    /\ entries = <<>>
    /\ analyses = <<>>
    /\ calls = <<>>
    /\ latencyLogs = <<>>
    /\ ratings = <<>>
    /\ models = [i \in 1..SeedModels |-> NewModel(PersonaNames[i])]
    /\ submissions = <<>>
    /\ nextEntryId = 1
    /\ nextAnalysisId = 1
    /\ lastRes = Res("none", 0, 0, "")
    /\ served = 0
    /\ reqs = <<>>

(***************** POST /api/rooms/:roomId/entries *************************)
PostEntry(roomId, speaker, content, replies) ==
    /\ IF Null \in {speaker, content}
       THEN /\ Respond(Res("entries", 0, 500, "Failed to create entry"))
            /\ UNCHANGED <<store, reqs>>
       ELSE LET entry == Entry(nextEntryId, roomId, speaker, content, <<"direct", 0>>)
                pass == AnalysisLoop(getAllAiModels, replies, roomId, entry.id, <<>>)
            IN  /\ entries' = Append(entries, entry)
                /\ nextEntryId' = nextEntryId + 1
                /\ analyses' = analyses \o pass.rows
                /\ nextAnalysisId' = nextAnalysisId + Len(pass.rows)
                /\ latencyLogs' = latencyLogs \o LatencyRows(getAllAiModels, replies, roomId)
                /\ Respond(IF pass.threw
                           THEN ResPass("entries", entry.id, 500, "Failed to create entry", replies)
                           ELSE ResPass("entries", entry.id, 201, "", replies))
                /\ UNCHANGED <<calls, ratings, models, submissions, reqs>>

(***************** POST /api/analyses/:analysisId/trigger ******************)
Call(roomId, modelId, reason, content, analysisId) ==
    [roomId |-> roomId, modelId |-> modelId, triggerReason |-> reason,
     responseContent |-> content, status |-> "completed", analysisId |-> analysisId]

\* The handler of the earlier revision of registerRoutes: the provider is
\* called in the loop itself, JSON.parse has no fallback (its exception is the
\* loop's to catch), the row has no proposed response, and a persona that wants
\* to speak with a confidence of at least ten times its trigger threshold gets
\* an outbound call at once.
PostEntryEarlier(roomId, speaker, content, replies) ==
    /\ IF Null \in {speaker, content}
       THEN /\ Respond(Res("entries", 0, 500, "Failed to create entry"))
            /\ UNCHANGED <<store, reqs>>
       ELSE LET entry == Entry(nextEntryId, roomId, speaker, content, <<"direct", 0>>)
                triggerThreshold(m) == IF m <= 3 THEN <<6, 5, 7>>[m] ELSE 3
                parsed == SelectSeq(getAllAiModels, LAMBDA m : replies[m].kind = "json")
                result(m) == analyzeConversation(replies[m])
                rows == [i \in 1..Len(parsed) |->
                            [AnalysisRow(nextAnalysisId + i - 1, roomId, parsed[i], entry.id, result(parsed[i]))
                                EXCEPT !.proposedResponse = Null]]
                speaking == SelectSeq(parsed, LAMBDA m : /\ result(m).shouldSpeak
                                                         /\ result(m).confidence >= triggerThreshold(m) * 10)
            IN  /\ entries' = Append(entries, entry)
                /\ nextEntryId' = nextEntryId + 1
                /\ analyses' = analyses \o rows
                /\ nextAnalysisId' = nextAnalysisId + Len(rows)
                /\ calls' = calls \o [i \in 1..Len(speaking) |->
                                         Call(roomId, speaking[i], result(speaking[i]).analysis,
                                              OrElse(result(speaking[i]).response, "No response generated"), 0)]
                /\ Respond(ResPass("entries", entry.id, 201, "", replies))
                /\ UNCHANGED <<ratings, models, submissions, reqs, latencyLogs>>

\* The ids a request may name: those of the rows there are, and one there is not.
AnalysisIdInputs == {a.id : a \in Range(analyses)} \cup {0}

\* The handler without its check of the proposed response.
TriggerUnchecked(analysisId) ==
    /\ LET found == SelectSeq(getAnalysesByRoom(DefaultRoom), LAMBDA a : a.id = analysisId)
           analysis == found[1]
           model == getAiModel(analysis.modelId)
       IN  IF found = <<>>
           THEN /\ Respond(Res("trigger", analysisId, 404, "Analysis not found"))
                /\ UNCHANGED <<store, reqs>>
           ELSE IF model = Undefined
           THEN /\ Respond(Res("trigger", analysisId, 404, "Model not found"))
                /\ UNCHANGED <<store, reqs>>
           ELSE /\ analyses' = markAnalysisTriggered(analyses, analysisId)
                /\ entries' = Append(entries, Entry(nextEntryId, analysis.roomId, model.name,
                                                    analysis.proposedResponse, <<"trigger", analysisId>>))
                /\ nextEntryId' = nextEntryId + 1
                /\ calls' = Append(calls, Call(analysis.roomId, analysis.modelId, analysis.analysis,
                                               analysis.proposedResponse, analysisId))
                /\ Respond(Res("trigger", analysisId, 201, ""))
                /\ UNCHANGED <<ratings, models, submissions, nextAnalysisId, reqs, latencyLogs>>

Trigger(analysisId) ==
    /\ LET found == SelectSeq(getAnalysesByRoom(DefaultRoom), LAMBDA a : a.id = analysisId)
           analysis == found[1]
           model == getAiModel(analysis.modelId)
       IN  IF found = <<>>
           THEN /\ Respond(Res("trigger", analysisId, 404, "Analysis not found"))
                /\ UNCHANGED <<store, reqs>>
           ELSE IF Falsy(analysis.proposedResponse)
           THEN /\ Respond(Res("trigger", analysisId, 400, "No proposed response available"))
                /\ UNCHANGED <<store, reqs>>
           ELSE IF model = Undefined
           THEN /\ Respond(Res("trigger", analysisId, 404, "Model not found"))
                /\ UNCHANGED <<store, reqs>>
           ELSE /\ analyses' = markAnalysisTriggered(analyses, analysisId)
                /\ entries' = Append(entries, Entry(nextEntryId, analysis.roomId, model.name,
                                                    analysis.proposedResponse, <<"trigger", analysisId>>))
                /\ nextEntryId' = nextEntryId + 1
                /\ calls' = Append(calls, Call(analysis.roomId, analysis.modelId, analysis.analysis,
                                               analysis.proposedResponse, analysisId))
                /\ Respond(Res("trigger", analysisId, 201, ""))
                /\ UNCHANGED <<ratings, models, submissions, nextAnalysisId, reqs, latencyLogs>>

(******************* POST /api/analyses/:analysisId/rate *******************)
RatingInputs == {-1, 0, 1, 2}

\* [-1, 0, 1].includes(rating)
ValidRating(rating) == rating \in {-1, 0, 1}

\* x * num / den, rounded to the nearest millionth
Times(x, num, den) == (2 * x * num + den) \div (2 * den)

Max(a, b) == IF a >= b THEN a ELSE b
Min(a, b) == IF a <= b THEN a ELSE b

\* The adjustment without its clamps.
NewMultiplierUnclamped(old, rating) ==
    CASE rating = -1 -> Times(old, 4, 5)
      [] rating = 1 -> Times(old, 21, 20)
      [] OTHER -> old

\* The multiplier a rating leaves: 20% penalty, 5% boost, clamped.
NewMultiplier(old, rating) ==
    CASE rating = -1 -> Max(MinMultiplier, Times(old, 4, 5))
      [] rating = 1 -> Min(MaxMultiplier, Times(old, 21, 20))
      [] OTHER -> old

\* The handler without its check for an existing rating.
AlreadyRatedUnchecked(analysisId) == FALSE

\* if (existing) return 400 "Already rated"
AlreadyRated(analysisId) == getRatingByAnalysis(analysisId) # Undefined

updateAiModel(id, updates) ==
    IF id \in ModelIds
    THEN [models EXCEPT ![id] = [f \in DOMAIN models[id] |->
                                    IF f \in DOMAIN updates THEN updates[f] ELSE models[id][f]]]
    ELSE models

Rating(analysisId, modelId, rating) == [analysisId |-> analysisId, modelId |-> modelId, rating |-> rating]

Rate(analysisId, rating) ==
    /\ LET analysis == getAnalysisById(analysisId)
           model == getAiModel(analysis.modelId)
       IN  IF ~ValidRating(rating)
           THEN /\ Respond(ResRate(analysisId, rating, 400, "Rating must be -1, 0, or 1"))
                /\ UNCHANGED <<store, reqs>>
           ELSE IF AlreadyRated(analysisId)
           THEN /\ Respond(ResRate(analysisId, rating, 400, "Already rated"))
                /\ UNCHANGED <<store, reqs>>
           ELSE IF analysis = Undefined
           THEN /\ Respond(ResRate(analysisId, rating, 404, "Analysis not found"))
                /\ UNCHANGED <<store, reqs>>
           ELSE /\ ratings' = Append(ratings, Rating(analysisId, analysis.modelId, rating))
                /\ models' = IF model # Undefined
                             THEN updateAiModel(analysis.modelId,
                                      [confidenceMultiplier |-> NewMultiplier(model.confidenceMultiplier, rating)])
                             ELSE models
                /\ Respond(ResRate(analysisId, rating, 201, ""))
                /\ UNCHANGED <<entries, analyses, calls, submissions, nextEntryId, nextAnalysisId, reqs, latencyLogs>>

(********************* POST /api/rooms/:roomId/reset ***********************)
\* A reset that clears the three tables whatever the room.
ResetEverything(roomId) ==
    /\ calls' = <<>>
    /\ analyses' = <<>>
    /\ entries' = <<>>
    /\ Respond(Res("reset", roomId, 200, ""))
    /\ UNCHANGED <<ratings, models, submissions, nextEntryId, nextAnalysisId, reqs, latencyLogs>>

\* resetRoom: deleteCallsByRoom, deleteAnalysesByRoom, deleteEntriesByRoom
Reset(roomId) ==
    /\ calls' = SelectSeq(calls, LAMBDA c : c.roomId # roomId)
    /\ analyses' = SelectSeq(analyses, LAMBDA a : a.roomId # roomId)
    /\ entries' = SelectSeq(entries, LAMBDA e : e.roomId # roomId)
    /\ Respond(Res("reset", roomId, 200, ""))
    /\ UNCHANGED <<ratings, models, submissions, nextEntryId, nextAnalysisId, reqs, latencyLogs>>

(******************** PATCH / POST / DELETE /api/models ********************)
EmptyUpdate == [f \in {} |-> 0]

\* Request bodies that pass insertAiModelSchema.partial(), which has every
\* column of ai_models but the id.
PatchInputs == {EmptyUpdate, [isActive |-> FALSE], [isActive |-> TRUE],
                [confidenceMultiplier |-> 5 * DefaultMultiplier],
                [confidenceMultiplier |-> MinMultiplier]}

ModelIdInputs == ModelIds \cup {0}

PatchModel(modelId, updates) ==
    /\ IF DOMAIN updates = {}
       THEN /\ Respond(Res("patchModel", modelId, 400, "No valid fields to update"))
            /\ UNCHANGED <<store, reqs>>
       ELSE IF modelId \notin ModelIds
       THEN /\ Respond(Res("patchModel", modelId, 404, "Model not found"))
            /\ UNCHANGED <<store, reqs>>
       ELSE /\ models' = updateAiModel(modelId, updates)
            /\ Respond(Res("patchModel", modelId, 200, ""))
            /\ UNCHANGED <<entries, analyses, calls, ratings, submissions, nextEntryId, nextAnalysisId, reqs, latencyLogs>>

CreateModel(name, multiplier) ==
    /\ Len(models) < Len(PersonaNames)
    /\ models' = Append(models, [NewModel(name) EXCEPT !.confidenceMultiplier = multiplier])
    /\ Respond(Res("createModel", Len(models) + 1, 201, ""))
    /\ UNCHANGED <<entries, analyses, calls, ratings, submissions, nextEntryId, nextAnalysisId, reqs, latencyLogs>>

DeleteModel(modelId) ==
    /\ IF modelId \notin ModelIds
       THEN /\ Respond(Res("deleteModel", modelId, 404, "Model not found"))
            /\ UNCHANGED <<store, reqs>>
       ELSE /\ models' = updateAiModel(modelId, [isActive |-> FALSE])
            /\ Respond(Res("deleteModel", modelId, 200, ""))
            /\ UNCHANGED <<entries, analyses, calls, ratings, submissions, nextEntryId, nextAnalysisId, reqs, latencyLogs>>

(****************************** seedDatabase *******************************)
\* What start-up leaves where a response was: no request has been served by
\* the new process.
Restarted == Res("seedDatabase", 0, 0, "")

\* server/seed.ts: the philosophers whose name no row has are inserted (all of
\* them into an empty table); no row is changed or deleted.
Seed ==
    /\ LET existingNames == {models[m].name : m \in ModelIds}
           missingPhilosophers == SelectSeq([i \in 1..SeedModels |-> PersonaNames[i]],
                                            LAMBDA n : n \notin existingNames)
       IN  models' = models \o [i \in 1..Len(missingPhilosophers) |-> NewModel(missingPhilosophers[i])]
    /\ Respond(Restarted)
    /\ UNCHANGED <<entries, analyses, calls, latencyLogs, ratings, submissions, nextEntryId, nextAnalysisId, reqs>>

\* The revision of seedDatabase that runs db.delete(aiModels) and inserts the
\* philosophers again: the new rows get new ids and the default columns, and
\* the rows of model_analyses and outbound_calls go with the deleted personas
\* (model_id references ai_models ON DELETE CASCADE).
SeedReplace ==
    /\ models' = [i \in 1..Len(models) |-> Undefined] \o [i \in 1..SeedModels |-> NewModel(PersonaNames[i])]
    /\ analyses' = <<>>
    /\ calls' = <<>>
    /\ Respond(Restarted)
    /\ UNCHANGED <<entries, latencyLogs, ratings, submissions, nextEntryId, nextAnalysisId, reqs>>

(************************ POST /api/inbound/respond ************************)
Submission(roomId, speaker, content) ==
    [roomId |-> roomId, speaker |-> speaker, content |-> content, source |-> "api",
     status |-> "pending", reviewedBy |-> Null, reviewNote |-> Null]

SubmissionIds == 1..Len(submissions)
SubmissionIdInputs == SubmissionIds \cup {0}

getPendingSubmission(id) == IF id \in SubmissionIds THEN submissions[id] ELSE Undefined

\* The revision with the moderation queue: the content is only queued.
InboundRespond(roomId, speaker, content) ==
    IF Falsy(speaker) \/ Falsy(content)
    THEN /\ Respond(Res("respond", 0, 400, "speaker and content are required"))
         /\ UNCHANGED <<store, reqs>>
    ELSE /\ submissions' = Append(submissions, Submission(roomId, speaker, content))
         /\ Respond(Res("respond", Len(submissions) + 1, 201, ""))
         /\ UNCHANGED <<entries, analyses, calls, ratings, models, nextEntryId, nextAnalysisId, reqs, latencyLogs>>

\* The revision of server/routes.ts: the content goes straight into the
\* conversation.  Its createModelAnalysis call leaves out the NOT NULL column
\* analysis (it passes "reasoning"), so every insert of the loop throws into
\* the per-persona catch and the pass stores no row.
InboundRespondDirect(roomId, speaker, content, replies) ==
    IF Falsy(speaker) \/ Falsy(content)
    THEN /\ Respond(Res("respondDirect", 0, 400, "speaker and content are required"))
         /\ UNCHANGED <<store, reqs>>
    ELSE /\ entries' = Append(entries, Entry(nextEntryId, roomId, speaker, content, <<"inbound", 0>>))
         /\ nextEntryId' = nextEntryId + 1
         /\ latencyLogs' = latencyLogs \o LatencyRows(getAllAiModels, replies, roomId)
         /\ Respond(Res("respondDirect", nextEntryId, 201, ""))
         /\ UNCHANGED <<analyses, calls, ratings, models, submissions, nextAnalysisId, reqs>>

(******************* POST /api/admin/queue/:id/approve|reject **************)
\* The handlers without their check of the status.
AlreadyReviewedUnchecked(submission) == FALSE

\* if (submission.status !== "pending") return 400 `Submission already ${status}`
AlreadyReviewed(submission) == submission.status # "pending"

AlreadyError(submission) ==
    IF submission.status = "approved" THEN "Submission already approved" ELSE "Submission already rejected"

Reviewed(submission, status, reviewedBy, reviewNote) ==
    [submission EXCEPT !.status = status,
                       !.reviewedBy = OrElse(reviewedBy, "admin"),
                       !.reviewNote = OrElse(reviewNote, Null)]

Approve(id, reviewedBy, reviewNote, editedSpeaker, editedContent, replies) ==
    LET submission == getPendingSubmission(id)
        speaker == OrElse(editedSpeaker, submission.speaker)
        content == OrElse(editedContent, submission.content)
        entry == Entry(nextEntryId, submission.roomId, speaker, content, <<"approve", id>>)
        pass == AnalysisLoop(getAllAiModels, replies, submission.roomId, entry.id, <<>>)
    IN  IF submission = Undefined
        THEN /\ Respond(Res("approve", id, 404, "Submission not found"))
             /\ UNCHANGED <<store, reqs>>
        ELSE IF AlreadyReviewed(submission)
        THEN /\ Respond(Res("approve", id, 400, AlreadyError(submission)))
             /\ UNCHANGED <<store, reqs>>
        ELSE /\ entries' = Append(entries, entry)
             /\ nextEntryId' = nextEntryId + 1
             /\ submissions' = [submissions EXCEPT ![id] = Reviewed(submission, "approved", reviewedBy, reviewNote)]
             /\ analyses' = analyses \o pass.rows
             /\ nextAnalysisId' = nextAnalysisId + Len(pass.rows)
             /\ latencyLogs' = latencyLogs \o LatencyRows(getAllAiModels, replies, submission.roomId)
             /\ Respond(IF pass.threw
                        THEN ResApprove(id, 500, "Failed to approve submission", replies, editedSpeaker, editedContent)
                        ELSE ResApprove(id, 200, "", replies, editedSpeaker, editedContent))
             /\ UNCHANGED <<calls, ratings, models, reqs>>

Reject(id, reviewedBy, reviewNote) ==
    LET submission == getPendingSubmission(id)
    IN  IF submission = Undefined
        THEN /\ Respond(Res("reject", id, 404, "Submission not found"))
             /\ UNCHANGED <<store, reqs>>
        ELSE IF AlreadyReviewed(submission)
        THEN /\ Respond(Res("reject", id, 400, AlreadyError(submission)))
             /\ UNCHANGED <<store, reqs>>
        ELSE /\ submissions' = [submissions EXCEPT ![id] = Reviewed(submission, "rejected", reviewedBy, reviewNote)]
             /\ Respond(Res("reject", id, 200, ""))
             /\ UNCHANGED <<entries, analyses, calls, ratings, models, nextEntryId, nextAnalysisId, reqs, latencyLogs>>

(***************************************************************************)
(* The status views: GET /api/inbound/philosophers, GET /api/led-status     *)
(* and the persona panels of the dashboard.  Confidences are integers; the  *)
(* decay factor is held in hundredths.  Products are exact and Math.round   *)
(* rounds a half up.                                                        *)
(***************************************************************************)
DecayPerMessage == 15    \* 0.15
EligibleAbove == 50
FullBrightness == 255         \* brightness of a confidence of 100
TopRanks == 3

getEntriesByRoom(r) == SelectSeq(entries, LAMBDA x : x.roomId = r)

\* ... WHERE room_id = r AND model_id = m ORDER BY created_at DESC LIMIT 1
getLatestAnalysisByModel(r, m) ==
    LET rows == SelectSeq(analyses, LAMBDA a : a.roomId = r /\ a.modelId = m)
    IN  IF rows = <<>> THEN Undefined ELSE rows[Len(rows)]

\* .filter(a => !a.isTriggered && a.proposedResponse && a.confidence > 0)
\* .sort(newest first)[0]
latestActive(rows, m) ==
    LET active == SelectSeq(rows, LAMBDA a : /\ a.modelId = m
                                             /\ ~a.isTriggered
                                             /\ ~Falsy(a.proposedResponse)
                                             /\ a.confidence > 0)
    IN  IF active = <<>> THEN Undefined ELSE active[Len(active)]

\* A decay that is not cut off at zero.
decayFactorUnclamped(messagesSince) == 100 - DecayPerMessage * messagesSince

\* Math.max(0, 1 - (messagesSince * 0.15)), in hundredths
decayFactor(messagesSince) == Max(0, 100 - DecayPerMessage * messagesSince)

\* Math.round(confidence * decayFactor * multiplier): with x = confidence *
\* decayFactor in hundredths and the multiplier in millionths this is
\* floor((x * multiplier + 50000000) / 100000000), computed in two parts to
\* stay within the integers of the checker.
effectiveConfidence(confidence, decay, multiplier) ==
    LET x == confidence * decay
    IN  (x * (multiplier \div 1000) + ((x * (multiplier % 1000) + 50000000) \div 1000)) \div 100000

\* A threshold that admits the confidence 50 itself.
EligibleAtThreshold(confidence) == confidence >= EligibleAbove

\* effectiveConfidence > 50
Eligible(confidence) == confidence > EligibleAbove

\* rows.sort((a, b) => b.confidence - a.confidence): a stable sort
RECURSIVE InsertByConfidence(_, _)
InsertByConfidence(sorted, row) ==
    IF sorted = <<>> THEN <<row>>
    ELSE IF Head(sorted).confidence >= row.confidence
    THEN <<Head(sorted)>> \o InsertByConfidence(Tail(sorted), row)
    ELSE <<row>> \o sorted

RECURSIVE SortByConfidence(_)
SortByConfidence(rows) ==
    IF rows = <<>> THEN <<>>
    ELSE InsertByConfidence(SortByConfidence(SubSeq(rows, 1, Len(rows) - 1)), rows[Len(rows)])

\* One element of the philosophers array; since is the handler's local
\* messagesSince (0 when the persona has no active analysis).
PhilosopherStatus(roomId, m) ==
    LET active == latestActive(getAnalysesByRoom(roomId), m)
        roomEntries == getEntriesByRoom(roomId)
        latestEntryId == IF roomEntries = <<>> THEN 0 ELSE roomEntries[Len(roomEntries)].id
        messagesSince == IF active = Undefined THEN 0 ELSE latestEntryId - active.conversationEntryId
        confidence == IF active = Undefined THEN 0
                      ELSE effectiveConfidence(active.confidence, decayFactor(messagesSince),
                                               models[m].confidenceMultiplier)
    IN  [id |-> m, since |-> messagesSince, confidence |-> confidence,
         multiplier |-> models[m].confidenceMultiplier,
         hasResponse |-> Eligible(confidence),
         proposedResponse |-> IF Eligible(confidence) THEN active.proposedResponse ELSE Null,
         index |-> 0]

GetPhilosophers(roomId) ==
    /\ Respond(ResBody("philosophers", roomId,
           SortByConfidence([i \in 1..Len(getAllAiModels) |-> PhilosopherStatus(roomId, getAllAiModels[i])])))
    /\ UNCHANGED <<store, reqs>>

\* Math.round((effectiveConfidence / 100) * 255)
Brightness(confidence) == (2 * confidence * FullBrightness + 100) \div 200

\* One element of allStatuses: the latest analysis, whatever its state.
LedStatus(roomId, m) ==
    LET latest == getLatestAnalysisByModel(roomId, m)
        rawConfidence == IF latest = Undefined THEN 0 ELSE latest.confidence
        confidence == effectiveConfidence(rawConfidence, 100, models[m].confidenceMultiplier)
    IN  [id |-> m, since |-> 0, confidence |-> confidence,
         multiplier |-> models[m].confidenceMultiplier,
         hasResponse |-> IF latest = Undefined THEN FALSE ELSE latest.shouldSpeak,
         proposedResponse |-> Null,
         index |-> 0,
         brightness |-> Brightness(confidence)]

\* sorted.map((s, i) => ({...s, index: i < 3 ? i + 1 : null})); 0 stands for null
WithIndex(sorted) == [i \in 1..Len(sorted) |-> [sorted[i] EXCEPT !.index = IF i <= TopRanks THEN i ELSE 0]]

GetLedStatus(roomId) ==
    /\ Respond(ResBody("led-status", roomId,
           WithIndex(SortByConfidence([i \in 1..Len(getAllAiModels) |-> LedStatus(roomId, getAllAiModels[i])]))))
    /\ UNCHANGED <<store, reqs>>

\* The dashboard's panel of persona m: since is humanMessagesSince.
AiModelPanel(roomId, m) ==
    LET modelNames == {models[getAllAiModels[i]].name : i \in 1..Len(getAllAiModels)}
        active == latestActive(getAnalysesByRoom(roomId), m)
        analysisEntryId == IF active = Undefined THEN 0 ELSE active.conversationEntryId
        humanMessagesSince == Len(SelectSeq(getEntriesByRoom(roomId),
                                  LAMBDA x : x.id > analysisEntryId /\ x.speaker \notin modelNames))
        rawConfidence == IF active = Undefined THEN 0 ELSE active.confidence
        confidence == effectiveConfidence(rawConfidence, decayFactor(humanMessagesSince),
                                          models[m].confidenceMultiplier)
    IN  [id |-> m, since |-> humanMessagesSince, confidence |-> confidence,
         multiplier |-> models[m].confidenceMultiplier,
         hasResponse |-> active # Undefined /\ Eligible(confidence),
         proposedResponse |-> IF active # Undefined /\ Eligible(confidence)
                              THEN active.proposedResponse ELSE Null,
         index |-> 0]

\* top3ModelIds and the buttonIndex each panel is given; the panels stay in
\* the order of the models.
Position(sorted, m) == CHOOSE i \in 1..Len(sorted) : sorted[i].id = m

Dashboard(roomId) ==
    LET panels == [i \in 1..Len(getAllAiModels) |-> AiModelPanel(roomId, getAllAiModels[i])]
        sorted == SortByConfidence(panels)
    IN  [i \in 1..Len(panels) |->
            [panels[i] EXCEPT !.index = IF Position(sorted, panels[i].id) <= TopRanks
                                        THEN Position(sorted, panels[i].id) ELSE 0]]

\* The dashboard renders the store it has fetched.
RenderDashboard(roomId) ==
    /\ Respond(ResBody("dashboard", roomId, Dashboard(roomId)))
    /\ UNCHANGED <<store, reqs>>

(************************* the request-at-a-time server ********************)
\* One provider reply for each persona of the pass.
ReplyInputs == [Range(getAllAiModels) -> Replies]

\* The feedback loop: new content, trigger, rate, reset.
Next ==
    \/ served < MaxRequests /\ \E r \in Rooms, s \in HumanSpeakers, c \in Contents, replies \in ReplyInputs :
           PostEntry(r, s, c, replies)
    \/ served < MaxRequests /\ \E a \in AnalysisIdInputs : Trigger(a)
    \/ served < MaxRequests /\ \E a \in AnalysisIdInputs, v \in RatingInputs : Rate(a, v)
    \/ served < MaxRequests /\ \E r \in Rooms : Reset(r)

Spec == Init /\ [][Next]_vars

\* The moderation queue.
Reviewers == {Null, "moderator"}
Notes == {Null}
Edits == {Null, "edited"}

NextQueue ==
    \/ served < MaxQueueRequests /\ \E r \in Rooms, s \in HumanSpeakers \cup {""}, c \in Contents :
           InboundRespond(r, s, c)
    \/ served < MaxQueueRequests /\ \E r \in Rooms, s \in HumanSpeakers \cup {""}, c \in Contents,
                                       replies \in ReplyInputs :
           InboundRespondDirect(r, s, c, replies)
    \/ served < MaxQueueRequests /\ \E id \in SubmissionIdInputs, by \in Reviewers, note \in Notes,
                                       es \in Edits, ec \in Edits, replies \in ReplyInputs :
           Approve(id, by, note, es, ec, replies)
    \/ served < MaxQueueRequests /\ \E id \in SubmissionIdInputs, by \in Reviewers, note \in Notes :
           Reject(id, by, note)

SpecQueue == Init /\ [][NextQueue]_vars

\* Approvals with every combination of overrides, the empty string among them.
SpeakerEdits == {Null, "", "Bob"}
ContentEdits == {Null, "", "edited"}

NextApprove ==
    \/ served < MaxApproveRequests /\ \E r \in Rooms, s \in HumanSpeakers, c \in Contents :
           InboundRespond(r, s, c)
    \/ served < MaxApproveRequests /\ \E id \in SubmissionIdInputs, es \in SpeakerEdits, ec \in ContentEdits,
                                         replies \in ReplyInputs :
           Approve(id, Null, Null, es, ec, replies)

SpecApprove == Init /\ [][NextApprove]_vars

\* The rating loop: every persona proposes, so that every analysis can be
\* triggered and rated.
ProposalInputs == [Range(getAllAiModels) -> {JsonReply(90, "proposal")}]

NextRate ==
    \/ served < MaxRateRequests /\ \E r \in Rooms, s \in HumanSpeakers, c \in Contents, replies \in ProposalInputs :
           PostEntry(r, s, c, replies)
    \/ served < MaxRateRequests /\ \E a \in AnalysisIdInputs : Trigger(a)
    \/ served < MaxRateRequests /\ \E a \in AnalysisIdInputs, v \in RatingInputs : Rate(a, v)
    \/ served < MaxRateRequests /\ \E r \in Rooms : Reset(r)

SpecRate == Init /\ [][NextRate]_vars

\* Analysis passes: content posted to the default room or approved from the
\* queue, over a set of active personas that deactivation changes.
NextOrch ==
    \/ served < MaxOrchRequests /\ \E s \in HumanSpeakers, c \in Contents, replies \in ReplyInputs :
           PostEntry(DefaultRoom, s, c, replies)
    \/ served < MaxOrchRequests /\ \E s \in HumanSpeakers, c \in Contents :
           InboundRespond(DefaultRoom, s, c)
    \/ served < MaxOrchRequests /\ \E id \in SubmissionIds, replies \in ReplyInputs :
           Approve(id, Null, Null, Null, Null, replies)
    \/ served < MaxOrchRequests /\ \E m \in ModelIds : DeleteModel(m)

SpecOrch == Init /\ [][NextOrch]_vars

\* The feedback loop in the default room with deactivation of personas and
\* restarts of the server, seeded by either revision of seedDatabase.
RatingVotes == {-1, 1}

NextSeed ==
    \/ served < MaxSeedRequests /\ \E s \in HumanSpeakers, c \in Contents, replies \in ProposalInputs :
           PostEntry(DefaultRoom, s, c, replies)
    \/ served < MaxSeedRequests /\ \E a \in AnalysisIdInputs : Trigger(a)
    \/ served < MaxSeedRequests /\ \E a \in AnalysisIdInputs, v \in RatingVotes : Rate(a, v)
    \/ served < MaxSeedRequests /\ Reset(DefaultRoom)
    \/ served < MaxSeedRequests /\ \E m \in ModelIds : DeleteModel(m)
    \/ served < MaxSeedRequests /\ Seed
    \/ served < MaxSeedRequests /\ SeedReplace

SpecSeed == Init /\ [][NextSeed]_vars

\* Triggers of analyses of every kind (with and without a proposal, in either
\* room, fresh, decayed and superseded) beside the ratings that move the
\* multipliers.
TriggerReplyInputs ==
    {[m \in Range(getAllAiModels) |-> reply] : reply \in {JsonReply(90, "proposal"), Unparseable}}

NextTrigger ==
    \/ served < MaxTriggerRequests /\ \E r \in Rooms, s \in HumanSpeakers, c \in Contents, replies \in TriggerReplyInputs :
           PostEntry(r, s, c, replies)
    \/ served < MaxTriggerRequests /\ \E a \in AnalysisIdInputs : Trigger(a)
    \/ served < MaxTriggerRequests /\ \E a \in AnalysisIdInputs, v \in RatingVotes : Rate(a, v)

SpecTrigger == Init /\ [][NextTrigger]_vars

\* Outbound calls: content posted to either revision of the entries handler,
\* with a provider that may answer with a confidence beyond 100 or with text
\* that is no JSON, beside triggers and resets.
NextCalls ==
    \/ served < MaxCallRequests /\ \E s \in HumanSpeakers, c \in Contents,
               replies \in [Range(getAllAiModels) -> {JsonReply(90, "proposal"), JsonReply(150, "proposal"), Unparseable}] :
           PostEntry(DefaultRoom, s, c, replies)
    \/ served < MaxCallRequests /\ \E s \in HumanSpeakers, c \in Contents,
               replies \in [Range(getAllAiModels) -> {JsonReply(90, "proposal"), Unparseable}] :
           PostEntryEarlier(DefaultRoom, s, c, replies)
    \/ served < MaxCallRequests /\ \E a \in AnalysisIdInputs : Trigger(a)
    \/ served < MaxCallRequests /\ Reset(DefaultRoom)

SpecCalls == Init /\ [][NextCalls]_vars

\* Persona administration beside the rating loop.
MultiplierInputs == {DefaultMultiplier, 5 * DefaultMultiplier}

NextAdmin ==
    \/ served < MaxAdminRequests /\ \E r \in Rooms, s \in HumanSpeakers, c \in Contents, replies \in ProposalInputs :
           PostEntry(r, s, c, replies)
    \/ served < MaxAdminRequests /\ \E a \in AnalysisIdInputs, v \in RatingInputs : Rate(a, v)
    \/ served < MaxAdminRequests /\ \E m \in ModelIdInputs, u \in PatchInputs : PatchModel(m, u)
    \/ served < MaxAdminRequests /\ \E x \in MultiplierInputs : CreateModel(PersonaNames[Len(models) + 1], x)
    \/ served < MaxAdminRequests /\ \E m \in ModelIdInputs : DeleteModel(m)

SpecAdmin == Init /\ [][NextAdmin]_vars

\* Who speaks: a client names any speaker and sends any text, a persona's name
\* and the text of its proposal included.
ProposalText == "proposal"
AnySpeakers == HumanSpeakers \cup {PersonaNames[1]}
AnyContents == Contents \cup {ProposalText}

NextVoice ==
    \/ served < MaxVoiceRequests /\ \E s \in AnySpeakers, c \in AnyContents, replies \in ProposalInputs :
           PostEntry(DefaultRoom, s, c, replies)
    \/ served < MaxVoiceRequests /\ \E a \in AnalysisIdInputs : Trigger(a)
    \/ served < MaxVoiceRequests /\ \E a \in AnalysisIdInputs, v \in {-1, 1} : Rate(a, v)
    \/ served < MaxVoiceRequests /\ Reset(DefaultRoom)
    \/ served < MaxVoiceRequests /\ \E s \in AnySpeakers, c \in AnyContents : InboundRespond(DefaultRoom, s, c)
    \/ served < MaxVoiceRequests /\ \E id \in SubmissionIds, replies \in ProposalInputs :
           Approve(id, Null, Null, Null, Null, replies)

SpecVoice == Init /\ [][NextVoice]_vars

\* The status views beside the conversation: personas propose or fail to,
\* proposals are triggered, and the views are read.
ViewReplyInputs == [Range(getAllAiModels) -> {JsonReply(90, ProposalText), Unparseable}]

NextView ==
    \/ served < MaxViewRequests /\ \E s \in HumanSpeakers, c \in Contents, replies \in ViewReplyInputs :
           PostEntry(DefaultRoom, s, c, replies)
    \/ served < MaxViewRequests /\ \E a \in AnalysisIdInputs : Trigger(a)
    \/ served < MaxViewRequests /\ GetPhilosophers(DefaultRoom)
    \/ served < MaxViewRequests /\ GetLedStatus(DefaultRoom)
    \/ served < MaxViewRequests /\ RenderDashboard(DefaultRoom)

SpecView == Init /\ [][NextView]_vars

\* The LED view beside the rating loop: personas propose with a confidence of
\* up to 100 or fail to, proposals are rated, and the view is read.
LedReplyInputs == [Range(getAllAiModels) -> {JsonReply(100, ProposalText), JsonReply(90, ProposalText), Unparseable}]

NextLed ==
    \/ served < MaxLedRequests /\ \E s \in HumanSpeakers, c \in Contents, replies \in LedReplyInputs :
           PostEntry(DefaultRoom, s, c, replies)
    \/ served < MaxLedRequests /\ \E a \in AnalysisIdInputs, v \in RatingVotes : Rate(a, v)
    \/ served < MaxLedRequests /\ GetLedStatus(DefaultRoom)

SpecLed == Init /\ [][NextLed]_vars

\* The decay of a proposal: conversations in which the personas proposed on
\* the first Entry (with the raw confidences drawn) and every later turn is a
\* human one on which no persona's call succeeded, read through the views.
RawInputs == {50, 51, 90, 100}
MultiplierSamples == {DefaultMultiplier, NewMultiplier(DefaultMultiplier, -1), NewMultiplier(DefaultMultiplier, 1)}

InitDecay ==
    \E raw \in [1..SeedModels -> RawInputs], x \in MultiplierSamples, n \in 0..MaxStaleness :
        /\ entries = [i \in 1..(n + 1) |-> Entry(i, DefaultRoom, "Alice", "What is the meaning of life?", <<"direct", 0>>)]
        /\ analyses = [m \in 1..SeedModels |->
                          AnalysisRow(m, DefaultRoom, m, 1, analyzeConversation(JsonReply(raw[m], ProposalText)))]
        /\ calls = <<>>
        /\ latencyLogs = [i \in 1..((n + 1) * SeedModels) |->
                              LatencyLog(DefaultRoom, ((i - 1) % SeedModels) + 1, i <= SeedModels)]
        /\ ratings = <<>>
        /\ models = [i \in 1..SeedModels |->
                        [NewModel(PersonaNames[i]) EXCEPT !.confidenceMultiplier = IF i = 1 THEN x ELSE DefaultMultiplier]]
        /\ submissions = <<>>
        /\ nextEntryId = n + 2
        /\ nextAnalysisId = SeedModels + 1
        /\ lastRes = Res("none", 0, 0, "")
        /\ served = 0
        /\ reqs = <<>>

NextDecay ==
    \/ served < MaxDecayRequests /\ GetPhilosophers(DefaultRoom)
    \/ served < MaxDecayRequests /\ RenderDashboard(DefaultRoom)

SpecDecay == InitDecay /\ [][NextDecay]_vars

(***************************************************************************)
(* Requests in flight.  A handler is an async function: between two awaits  *)
(* it runs alone, at an await another request's code may run.  reqs holds   *)
(* the handlers suspended at an await, each with its locals and the await   *)
(* it is at.                                                                *)
(***************************************************************************)
ReqIds == 1..Len(reqs)

Drop(q) == [i \in 1..(Len(reqs) - 1) |-> IF i < q THEN reqs[i] ELSE reqs[i + 1]]

\* The handler of request q returns res.
Finish(q, res) == reqs' = Drop(q) /\ Respond(res)

\* The handler of request q goes on to its next await.
Goto(q, pc) == reqs' = [reqs EXCEPT ![q].pc = pc]

\* The handlers in flight; the other records of reqs are writes of latency
\* rows that nothing awaits.
Handlers == SelectSeq(reqs, LAMBDA r : r.op # "createLatencyLog")

InFlight(max) == served + Len(Handlers) < max

(************ POST /api/analyses/:analysisId/rate, await by await **********)
RateReq(analysisId, rating) ==
    [op |-> "rate", pc |-> "getRatingByAnalysis", analysisId |-> analysisId, rating |-> rating,
     analysis |-> Undefined, model |-> Undefined]

\* The request arrives: the body is validated, then the handler awaits
\* getRatingByAnalysis.
RateBegin(analysisId, rating) ==
    IF ~ValidRating(rating)
    THEN /\ Respond(ResRate(analysisId, rating, 400, "Rating must be -1, 0, or 1"))
         /\ UNCHANGED <<store, reqs>>
    ELSE /\ reqs' = Append(reqs, RateReq(analysisId, rating))
         /\ UNCHANGED <<store, lastRes, served>>

\* const existing = await storage.getRatingByAnalysis(analysisId)
RateGetRating(q) ==
    /\ reqs[q].op = "rate" /\ reqs[q].pc = "getRatingByAnalysis"
    /\ IF AlreadyRated(reqs[q].analysisId)
       THEN Finish(q, ResRate(reqs[q].analysisId, reqs[q].rating, 400, "Already rated"))
       ELSE /\ Goto(q, "getAnalysisById")
            /\ UNCHANGED <<lastRes, served>>
    /\ UNCHANGED store

\* const analysis = await storage.getAnalysisById(analysisId)
RateGetAnalysis(q) ==
    /\ reqs[q].op = "rate" /\ reqs[q].pc = "getAnalysisById"
    /\ LET analysis == getAnalysisById(reqs[q].analysisId)
       IN  IF analysis = Undefined
           THEN Finish(q, ResRate(reqs[q].analysisId, reqs[q].rating, 404, "Analysis not found"))
           ELSE /\ reqs' = [reqs EXCEPT ![q].pc = "createResponseRating", ![q].analysis = analysis]
                /\ UNCHANGED <<lastRes, served>>
    /\ UNCHANGED store

\* await storage.createResponseRating({analysisId, modelId, rating})
RateCreateRating(q) ==
    /\ reqs[q].op = "rate" /\ reqs[q].pc = "createResponseRating"
    /\ ratings' = Append(ratings, Rating(reqs[q].analysisId, reqs[q].analysis.modelId, reqs[q].rating))
    /\ Goto(q, "getAiModel")
    /\ UNCHANGED <<entries, analyses, calls, models, submissions, nextEntryId, nextAnalysisId, lastRes, served, latencyLogs>>

\* const model = await storage.getAiModel(analysis.modelId)
RateGetModel(q) ==
    /\ reqs[q].op = "rate" /\ reqs[q].pc = "getAiModel"
    /\ LET model == getAiModel(reqs[q].analysis.modelId)
       IN  IF model = Undefined
           THEN Finish(q, ResRate(reqs[q].analysisId, reqs[q].rating, 201, ""))
           ELSE /\ reqs' = [reqs EXCEPT ![q].pc = "updateAiModel", ![q].model = model]
                /\ UNCHANGED <<lastRes, served>>
    /\ UNCHANGED store

\* await storage.updateAiModel(modelId, {confidenceMultiplier: newMultiplier})
RateUpdateModel(q) ==
    /\ reqs[q].op = "rate" /\ reqs[q].pc = "updateAiModel"
    /\ models' = updateAiModel(reqs[q].analysis.modelId,
                     [confidenceMultiplier |-> NewMultiplier(reqs[q].model.confidenceMultiplier, reqs[q].rating)])
    /\ Finish(q, ResRate(reqs[q].analysisId, reqs[q].rating, 201, ""))
    /\ UNCHANGED <<entries, analyses, calls, ratings, submissions, nextEntryId, nextAnalysisId, latencyLogs>>

\* Rate requests served concurrently, over analyses that content requests
\* have created.
NextRateRace ==
    \/ InFlight(MaxRaceRequests) /\ \E r \in Rooms, s \in HumanSpeakers, c \in Contents, replies \in ProposalInputs :
           PostEntry(r, s, c, replies)
    \/ InFlight(MaxRaceRequests) /\ \E a \in AnalysisIdInputs, v \in RatingInputs : RateBegin(a, v)
    \/ \E q \in ReqIds : RateGetRating(q)
    \/ \E q \in ReqIds : RateGetAnalysis(q)
    \/ \E q \in ReqIds : RateCreateRating(q)
    \/ \E q \in ReqIds : RateGetModel(q)
    \/ \E q \in ReqIds : RateUpdateModel(q)

SpecRateRace == Init /\ [][NextRateRace]_vars

(********* POST /api/admin/queue/:id/approve|reject, await by await ********)
ReviewReq(op, id, reviewedBy, reviewNote, editedSpeaker, editedContent) ==
    [op |-> op, pc |-> "getPendingSubmission", id |-> id, reviewedBy |-> reviewedBy,
     reviewNote |-> reviewNote, editedSpeaker |-> editedSpeaker, editedContent |-> editedContent,
     submission |-> Undefined, entryId |-> 0]

ApproveBegin(id, reviewedBy, reviewNote, editedSpeaker, editedContent) ==
    /\ reqs' = Append(reqs, ReviewReq("approve", id, reviewedBy, reviewNote, editedSpeaker, editedContent))
    /\ UNCHANGED <<store, lastRes, served>>

RejectBegin(id, reviewedBy, reviewNote) ==
    /\ reqs' = Append(reqs, ReviewReq("reject", id, reviewedBy, reviewNote, Null, Null))
    /\ UNCHANGED <<store, lastRes, served>>

\* const submission = await storage.getPendingSubmission(id), and the two
\* early returns that follow it, in either handler
ReviewGetSubmission(q) ==
    /\ reqs[q].op \in {"approve", "reject"} /\ reqs[q].pc = "getPendingSubmission"
    /\ LET submission == getPendingSubmission(reqs[q].id)
       IN  IF submission = Undefined
           THEN Finish(q, Res(reqs[q].op, reqs[q].id, 404, "Submission not found"))
           ELSE IF AlreadyReviewed(submission)
           THEN Finish(q, Res(reqs[q].op, reqs[q].id, 400, AlreadyError(submission)))
           ELSE /\ reqs' = [reqs EXCEPT ![q].submission = submission,
                                        ![q].pc = IF reqs[q].op = "approve"
                                                  THEN "createConversationEntry"
                                                  ELSE "updatePendingSubmission"]
                /\ UNCHANGED <<lastRes, served>>
    /\ UNCHANGED store

\* approve: const entry = await storage.createConversationEntry({...})
ApproveCreateEntry(q) ==
    /\ reqs[q].op = "approve" /\ reqs[q].pc = "createConversationEntry"
    /\ entries' = Append(entries, Entry(nextEntryId, reqs[q].submission.roomId,
                                        OrElse(reqs[q].editedSpeaker, reqs[q].submission.speaker),
                                        OrElse(reqs[q].editedContent, reqs[q].submission.content),
                                        <<"approve", reqs[q].id>>))
    /\ nextEntryId' = nextEntryId + 1
    /\ reqs' = [reqs EXCEPT ![q].entryId = nextEntryId, ![q].pc = "updatePendingSubmission"]
    /\ UNCHANGED <<analyses, calls, ratings, models, submissions, nextAnalysisId, lastRes, served, latencyLogs>>

\* approve: await storage.updatePendingSubmission(id, {status: "approved", ...})
ApproveUpdate(q) ==
    /\ reqs[q].op = "approve" /\ reqs[q].pc = "updatePendingSubmission"
    /\ submissions' = [submissions EXCEPT ![reqs[q].id] =
                          Reviewed(submissions[reqs[q].id], "approved", reqs[q].reviewedBy, reqs[q].reviewNote)]
    /\ Goto(q, "analysis")
    /\ UNCHANGED <<entries, analyses, calls, ratings, models, nextEntryId, nextAnalysisId, lastRes, served, latencyLogs>>

\* approve: the analysis pass over the active personas, then res.json
ApproveAnalyse(q, replies) ==
    /\ reqs[q].op = "approve" /\ reqs[q].pc = "analysis"
    /\ LET pass == AnalysisLoop(getAllAiModels, replies, reqs[q].submission.roomId, reqs[q].entryId, <<>>)
       IN  /\ analyses' = analyses \o pass.rows
           /\ nextAnalysisId' = nextAnalysisId + Len(pass.rows)
    /\ latencyLogs' = latencyLogs \o LatencyRows(getAllAiModels, replies, reqs[q].submission.roomId)
    /\ Finish(q, ResPass("approve", reqs[q].id, 200, "", replies))
    /\ UNCHANGED <<entries, calls, ratings, models, submissions, nextEntryId>>

\* reject: await storage.updatePendingSubmission(id, {status: "rejected", ...})
RejectUpdate(q) ==
    /\ reqs[q].op = "reject" /\ reqs[q].pc = "updatePendingSubmission"
    /\ submissions' = [submissions EXCEPT ![reqs[q].id] =
                          Reviewed(submissions[reqs[q].id], "rejected", reqs[q].reviewedBy, reqs[q].reviewNote)]
    /\ Finish(q, Res("reject", reqs[q].id, 200, ""))
    /\ UNCHANGED <<entries, analyses, calls, ratings, models, nextEntryId, nextAnalysisId, latencyLogs>>

\* Reviews served concurrently, over submissions the inbound endpoint queued.
NextQueueRace ==
    \/ InFlight(MaxRaceRequests) /\ \E r \in Rooms, s \in HumanSpeakers, c \in Contents :
           InboundRespond(r, s, c)
    \/ InFlight(MaxRaceRequests) /\ \E id \in SubmissionIdInputs, by \in Reviewers, es \in Edits :
           ApproveBegin(id, by, Null, es, Null)
    \/ InFlight(MaxRaceRequests) /\ \E id \in SubmissionIdInputs, by \in Reviewers :
           RejectBegin(id, by, Null)
    \/ \E q \in ReqIds : ReviewGetSubmission(q)
    \/ \E q \in ReqIds : ApproveCreateEntry(q)
    \/ \E q \in ReqIds : ApproveUpdate(q)
    \/ \E q \in ReqIds, replies \in ProposalInputs : ApproveAnalyse(q, replies)
    \/ \E q \in ReqIds : RejectUpdate(q)

SpecQueueRace == Init /\ [][NextQueueRace]_vars

(************* POST /api/rooms/:roomId/entries, await by await *************)
\* settled counts the wrapped calls of the request that have settled, and fn
\* is what the last of them settled with.
PostReq(roomId, entryId) ==
    [op |-> "entries", pc |-> "getAllAiModels", roomId |-> roomId, entryId |-> entryId,
     personas |-> <<>>, result |-> Undefined, settled |-> 0, fn |-> Undefined, stale |-> FALSE]

\* storage.createLatencyLog(row) in flight: logLatency does not await it.
WriteReq(row) == [op |-> "createLatencyLog", pc |-> "insert", row |-> row]

\* The request arrives: the body is validated and
\* const entry = await storage.createConversationEntry(validated)
PostBegin(roomId, speaker, content) ==
    /\ entries' = Append(entries, Entry(nextEntryId, roomId, speaker, content, <<"direct", 0>>))
    /\ nextEntryId' = nextEntryId + 1
    /\ reqs' = Append(reqs, PostReq(roomId, nextEntryId))
    /\ UNCHANGED <<analyses, calls, ratings, models, submissions, nextAnalysisId, lastRes, served, latencyLogs>>

\* const models = await storage.getAllAiModels(): the personas of the pass
PostGetModels(q) ==
    /\ reqs[q].op = "entries" /\ reqs[q].pc = "getAllAiModels"
    /\ reqs' = [reqs EXCEPT ![q].personas = getAllAiModels, ![q].pc = "analyzeConversation"]
    /\ UNCHANGED <<store, lastRes, served>>

\* const result = await logLatency(.., () => analyzeConversation(..)) for the
\* next persona of the pass.  The promise settles with a result, settles with
\* an exception, which the catch of the loop body logs, or never settles: no
\* call of the chain passes a timeout or an abort signal.
PostAnalyze(q, reply) ==
    /\ reqs[q].op = "entries" /\ reqs[q].pc = "analyzeConversation"
    /\ reqs[q].personas # <<>>
    /\ reqs' = IF reply = Hang
               THEN [reqs EXCEPT ![q].pc = "pending"]
               ELSE LET fn == analyzeConversation(reply)
                        wrapped == logLatency(fn, reqs[q].roomId, Head(reqs[q].personas))
                        counted == [reqs EXCEPT ![q].settled = @ + 1, ![q].fn = fn]
                    IN  Append(IF wrapped.settled = Thrown
                               THEN [counted EXCEPT ![q].personas = Tail(reqs[q].personas)]
                               ELSE [counted EXCEPT ![q].result = wrapped.settled,
                                                    ![q].pc = "createModelAnalysis"],
                               WriteReq(wrapped.log))
    /\ UNCHANGED <<store, lastRes, served>>

\* The insert of a latency row goes through.
LogWriteDone(w) ==
    /\ reqs[w].op = "createLatencyLog"
    /\ latencyLogs' = Append(latencyLogs, reqs[w].row)
    /\ reqs' = Drop(w)
    /\ UNCHANGED <<entries, analyses, calls, ratings, models, submissions, nextEntryId, nextAnalysisId,
                   lastRes, served>>

\* A rejected insert that nothing catches: the unhandled rejection ends the
\* process and with it every handler in flight.
LogWriteFailUncaught(w) ==
    /\ reqs[w].op = "createLatencyLog"
    /\ reqs' = <<>>
    /\ UNCHANGED <<store, lastRes, served>>

\* The insert of a latency row is rejected:
\* .catch(logErr => console.error("Failed to save latency log:", logErr))
LogWriteFail(w) ==
    /\ reqs[w].op = "createLatencyLog"
    /\ reqs' = Drop(w)
    /\ UNCHANGED <<store, lastRes, served>>

\* await storage.createModelAnalysis({...}), the end of the loop body
\* The insert is rejected when the Entry or the persona it references is gone
\* (the foreign keys of model_analyses); the catch of the loop body logs it.
PostCreateAnalysis(q) ==
    /\ reqs[q].op = "entries" /\ reqs[q].pc = "createModelAnalysis"
    /\ analyses' = IF /\ \E i \in 1..Len(entries) : entries[i].id = reqs[q].entryId
                      /\ Head(reqs[q].personas) \in ModelIds
                   THEN Append(analyses, AnalysisRow(nextAnalysisId, reqs[q].roomId, Head(reqs[q].personas),
                                                     reqs[q].entryId, reqs[q].result))
                   ELSE analyses
    /\ nextAnalysisId' = nextAnalysisId + 1
    /\ reqs' = [reqs EXCEPT ![q].personas = Tail(reqs[q].personas), ![q].result = Undefined,
                            ![q].pc = "analyzeConversation"]
    /\ UNCHANGED <<entries, calls, ratings, models, submissions, nextEntryId, lastRes, served, latencyLogs>>

\* res.status(201).json(entry) after the loop
PostRespond(q) ==
    /\ reqs[q].op = "entries" /\ reqs[q].pc = "analyzeConversation"
    /\ reqs[q].personas = <<>>
    /\ Finish(q, Res("entries", reqs[q].entryId, 201, ""))
    /\ UNCHANGED store

\* The continuation of request q that the event loop can run.
PostStep(q) ==
    \/ PostGetModels(q)
    \/ \E reply \in Replies \cup {Hang} : PostAnalyze(q, reply)
    \/ PostCreateAnalysis(q)
    \/ PostRespond(q)

\* Content requests served concurrently, with a provider that may also hang.
NextPass ==
    \/ InFlight(MaxPassRequests) /\ \E r \in Rooms, s \in HumanSpeakers, c \in Contents : PostBegin(r, s, c)
    \/ \E q \in ReqIds : PostGetModels(q)
    \/ \E q \in ReqIds, reply \in Replies \cup {Hang} : PostAnalyze(q, reply)
    \/ \E q \in ReqIds : PostCreateAnalysis(q)
    \/ \E q \in ReqIds : PostRespond(q)
    \/ \E w \in ReqIds : LogWriteDone(w)
    \/ \E w \in ReqIds : LogWriteFail(w)

SpecPass == Init /\ [][NextPass]_vars

(******* trigger and reset, await by await, beside content requests ********)
\* A request arrives: its handler runs up to its first await.
Begin(req) ==
    /\ reqs' = Append(reqs, req)
    /\ UNCHANGED <<store, lastRes, served>>

\* The continuation of the trigger handler q at the await it is at.
TriggerStep(q) ==
    /\ reqs[q].op = "trigger"
    /\ LET id == reqs[q].analysisId
           found == SelectSeq(getAnalysesByRoom(DefaultRoom), LAMBDA a : a.id = id)
           analysis == reqs[q].analysis
           model == reqs[q].model
       IN  CASE reqs[q].pc = "getAnalysesByRoom" ->
                  /\ IF found = <<>>
                     THEN Finish(q, Res("trigger", id, 404, "Analysis not found"))
                     ELSE IF Falsy(found[1].proposedResponse)
                     THEN Finish(q, Res("trigger", id, 400, "No proposed response available"))
                     ELSE /\ reqs' = [reqs EXCEPT ![q].analysis = found[1], ![q].pc = "getAiModel"]
                          /\ UNCHANGED <<lastRes, served>>
                  /\ UNCHANGED store
             [] reqs[q].pc = "getAiModel" ->
                  /\ IF getAiModel(analysis.modelId) = Undefined
                     THEN Finish(q, Res("trigger", id, 404, "Model not found"))
                     ELSE /\ reqs' = [reqs EXCEPT ![q].model = getAiModel(analysis.modelId),
                                                  ![q].pc = "markAnalysisTriggered"]
                          /\ UNCHANGED <<lastRes, served>>
                  /\ UNCHANGED store
             [] reqs[q].pc = "markAnalysisTriggered" ->
                  /\ analyses' = markAnalysisTriggered(analyses, id)
                  /\ Goto(q, "createConversationEntry")
                  /\ UNCHANGED <<entries, calls, ratings, models, submissions, nextEntryId, nextAnalysisId,
                                 latencyLogs, lastRes, served>>
             [] reqs[q].pc = "createConversationEntry" ->
                  /\ entries' = Append(entries, Entry(nextEntryId, analysis.roomId, model.name,
                                                      analysis.proposedResponse, <<"trigger", id>>))
                  /\ nextEntryId' = nextEntryId + 1
                  /\ Goto(q, "createOutboundCall")
                  /\ UNCHANGED <<analyses, calls, ratings, models, submissions, nextAnalysisId,
                                 latencyLogs, lastRes, served>>
             [] reqs[q].pc = "createOutboundCall" ->
                  /\ calls' = Append(calls, Call(analysis.roomId, analysis.modelId, analysis.analysis,
                                                 analysis.proposedResponse, id))
                  /\ Finish(q, Res("trigger", id, 201, ""))
                  /\ UNCHANGED <<entries, analyses, ratings, models, submissions, nextEntryId, nextAnalysisId,
                                 latencyLogs>>

\* The continuation of the reset handler q: the three deletes of resetRoom,
\* one await each; the delete of the Entries takes their Analyses with it
\* (ON DELETE CASCADE).  When the handler returns, every handler still in
\* flight is one that started before this reset was over (stale).
ResetStep(q) ==
    /\ reqs[q].op = "reset"
    /\ LET r == reqs[q].roomId
           gone == {entries[i].id : i \in {j \in 1..Len(entries) : entries[j].roomId = r}}
       IN  CASE reqs[q].pc = "deleteCallsByRoom" ->
                  /\ calls' = SelectSeq(calls, LAMBDA c : c.roomId # r)
                  /\ Goto(q, "deleteAnalysesByRoom")
                  /\ UNCHANGED <<entries, analyses, ratings, models, submissions, nextEntryId, nextAnalysisId,
                                 latencyLogs, lastRes, served>>
             [] reqs[q].pc = "deleteAnalysesByRoom" ->
                  /\ analyses' = SelectSeq(analyses, LAMBDA a : a.roomId # r)
                  /\ Goto(q, "deleteEntriesByRoom")
                  /\ UNCHANGED <<entries, calls, ratings, models, submissions, nextEntryId, nextAnalysisId,
                                 latencyLogs, lastRes, served>>
             [] reqs[q].pc = "deleteEntriesByRoom" ->
                  /\ entries' = SelectSeq(entries, LAMBDA e : e.roomId # r)
                  /\ analyses' = SelectSeq(analyses, LAMBDA a : a.conversationEntryId \notin gone)
                  /\ reqs' = [i \in 1..(Len(reqs) - 1) |->
                                 IF Drop(q)[i].op \in {"trigger", "entries"}
                                 THEN [Drop(q)[i] EXCEPT !.stale = TRUE] ELSE Drop(q)[i]]
                  /\ Respond(Res("reset", r, 200, ""))
                  /\ UNCHANGED <<calls, ratings, models, submissions, nextEntryId, nextAnalysisId, latencyLogs>>

\* A content request, a trigger and a reset of the default room in flight
\* together, with a provider that answers with a proposal.
NextResetRace ==
    \/ InFlight(MaxResetRequests) /\ \E s \in HumanSpeakers, c \in Contents : PostBegin(DefaultRoom, s, c)
    \/ \E q \in ReqIds : PostGetModels(q)
    \/ \E q \in ReqIds : PostAnalyze(q, JsonReply(90, "proposal"))
    \/ \E q \in ReqIds : PostCreateAnalysis(q)
    \/ \E q \in ReqIds : PostRespond(q)
    \/ \E w \in ReqIds : LogWriteDone(w)
    \/ InFlight(MaxResetRequests) /\ \E a \in AnalysisIdInputs :
           Begin([op |-> "trigger", pc |-> "getAnalysesByRoom", analysisId |-> a,
                  analysis |-> Undefined, model |-> Undefined, stale |-> FALSE])
    \/ \E q \in ReqIds : TriggerStep(q)
    \/ InFlight(MaxResetRequests) /\
           Begin([op |-> "reset", pc |-> "deleteCallsByRoom", roomId |-> DefaultRoom])
    \/ \E q \in ReqIds : ResetStep(q)

SpecResetRace == Init /\ [][NextResetRace]_vars

\* Content requests to the default room, one after the other, with a provider
\* that always settles and latency rows whose insert may be rejected;  the
\* inserts of one request can still be in flight during the next.
SettlingReplies == {JsonReply(90, "proposal"), ProviderError}

NextLatency ==
    \/ InFlight(MaxLatencyRequests) /\ Handlers = <<>> /\ \E s \in HumanSpeakers, c \in Contents :
           PostBegin(DefaultRoom, s, c)
    \/ \E q \in ReqIds : PostGetModels(q)
    \/ \E q \in ReqIds, reply \in SettlingReplies : PostAnalyze(q, reply)
    \/ \E q \in ReqIds : PostCreateAnalysis(q)
    \/ \E q \in ReqIds : PostRespond(q)
    \/ \E w \in ReqIds : LogWriteDone(w)
    \/ \E w \in ReqIds : LogWriteFail(w)

SpecLatency == Init /\ [][NextLatency]_vars

(***************************************************************************)
(* server/ai-provider.ts: the mapping of model identifiers to backends and *)
(* the completion call that goes through it.                               *)
(***************************************************************************)
OpenAIModels == {"gpt-4o-mini", "gpt-4o", "gpt-4.1-nano", "gpt-4.1-mini", "gpt-4.1", "gpt-5-nano",
                 "gpt-5-mini", "gpt-5", "gpt-5.1", "gpt-5.2", "o3-mini", "o3", "o4-mini"}
AnthropicModels == {"claude-opus-4-5", "claude-sonnet-4-5", "claude-haiku-4-5"}
OpenRouterModels == {"deepseek/deepseek-chat-v3.1", "deepseek/deepseek-v3.2", "deepseek/deepseek-r1",
                     "x-ai/grok-4", "x-ai/grok-4.1-fast", "x-ai/grok-3-mini"}

MODEL_PROVIDER_MAP ==
    [m \in OpenAIModels \cup AnthropicModels \cup OpenRouterModels |->
        IF m \in OpenAIModels THEN "openai"
        ELSE IF m \in AnthropicModels THEN "anthropic"
        ELSE "openrouter"]

\* modelId in MODEL_PROVIDER_MAP
isValidModel(modelId) == modelId \in DOMAIN MODEL_PROVIDER_MAP

\* MODEL_PROVIDER_MAP[modelId] || "openai"
getProvider(modelId) == IF isValidModel(modelId) THEN MODEL_PROVIDER_MAP[modelId] ELSE "openai"

\* Identifiers of the mapping and identifiers that are not in it.
UnknownModels == {"llama-3", "gpt-4o-mini-2024"}
ModelIdentifiers == DOMAIN MODEL_PROVIDER_MAP \cup UnknownModels

\* A call of chatCompletion(modelId, messages, jsonMode) in a process whose
\* OpenRouter client is or is not configured.
ChatReq(modelId, jsonMode, openrouter) ==
    [op |-> "chatCompletion", pc |-> "getProvider", modelId |-> modelId, jsonMode |-> jsonMode,
     openrouter |-> openrouter]

\* The request a backend SDK is called with.
BackendRequest(backend, modelId, jsonMode) == [backend |-> backend, model |-> modelId, jsonMode |-> jsonMode]

\* What a backend answers: a completion, or an error the SDK throws.
BackendReplies == {"completion", "error"}

\* How a call of chatCompletion ended: with a string (200) or with an exception
\* (500), for which model identifier, and the backend requests it issued.
ResChat(modelId, status, error, requests) ==
    [Res("chatCompletion", 0, status, error) EXCEPT !.arg = modelId, !.body = requests]

\* chatCompletion: the branch of the provider, then the call of its SDK
ChatCompletion(q, reply) ==
    /\ reqs[q].op = "chatCompletion"
    /\ LET modelId == reqs[q].modelId
           provider == getProvider(modelId)
           request == BackendRequest(provider, modelId, reqs[q].jsonMode)
       IN  IF provider = "openrouter" /\ ~reqs[q].openrouter
           THEN Finish(q, ResChat(modelId, 500, "OpenRouter is not configured", <<>>))
           ELSE IF reply = "error"
           THEN Finish(q, ResChat(modelId, 500, "backend error", <<request>>))
           ELSE Finish(q, ResChat(modelId, 200, "", <<request>>))
    /\ UNCHANGED store

InitProvider ==
    /\ entries = <<>>
    /\ analyses = <<>>
    /\ calls = <<>>
    /\ latencyLogs = <<>>
    /\ ratings = <<>>
    /\ models = [i \in 1..SeedModels |-> NewModel(PersonaNames[i])]
    /\ submissions = <<>>
    /\ nextEntryId = 1
    /\ nextAnalysisId = 1
    /\ lastRes = Res("none", 0, 0, "")
    /\ served = 0
    /\ \E modelId \in ModelIdentifiers, jsonMode \in BOOLEAN, openrouter \in BOOLEAN :
          reqs = <<ChatReq(modelId, jsonMode, openrouter)>>

NextProvider == \E q \in ReqIds, reply \in BackendReplies : ChatCompletion(q, reply)

SpecProvider == InitProvider /\ [][NextProvider]_vars

(***************************************************************************)
(*                               The claims                                *)
(***************************************************************************)
EntriesFromApproval(id) == {i \in 1..Len(entries) : entries[i].origin = <<"approve", id>>}
EntriesFromTrigger(a) == {i \in 1..Len(entries) : entries[i].origin = <<"trigger", a>>}
CallsFromTrigger(a) == {i \in 1..Len(calls) : calls[i].analysisId = a}

\* C1: triggering an analysis twice succeeds once and fails the second time, so
\* a triggered analysis has put exactly one Entry and exactly one OutboundCall
\* into its room (a reset removes the three together).
C1_TriggerIdempotent ==
    \A i \in 1..Len(analyses) :
        analyses[i].isTriggered =>
            /\ Cardinality(EntriesFromTrigger(analyses[i].id)) = 1
            /\ Cardinality(CallsFromTrigger(analyses[i].id)) = 1

RatingsOf(a) == {i \in 1..Len(ratings) : ratings[i].analysisId = a}

\* A step that serves a Rate request for analysis a with a rating of -1 or +1.
RateServed(a) ==
    /\ served' = served + 1
    /\ lastRes'.op = "rate"
    /\ lastRes'.id = a
    /\ lastRes'.arg \in {-1, 1}

\* C2: there is at most one Rating per Analysis in every reachable state, and a
\* Rate call on an analysis that already has a Rating fails with the
\* already-rated conflict, persists no Rating and leaves every multiplier as
\* it was.
C2_RatingUnique ==
    /\ [](\A i \in 1..Len(ratings) : Cardinality(RatingsOf(ratings[i].analysisId)) = 1)
    /\ [][\A a \in AnalysisIdInputs :
            (RatingsOf(a) # {} /\ RateServed(a)) =>
                /\ lastRes'.status = 400
                /\ lastRes'.error = "Already rated"
                /\ ratings' = ratings
                /\ models' = models]_vars

\* C3: however two concurrent Rate requests on one analysis interleave, at most
\* one Rating is persisted for the analysis.
C3_ConcurrentRateOnce ==
    \A a \in AnalysisIdInputs : Cardinality(RatingsOf(a)) <= 1

\* C4: every persona's confidence multiplier lies within [0.1, 1.5] in every
\* reachable state, whatever ratings, persona edits and creations were served.
C4_MultiplierInRange ==
    \A m \in ModelIds :
        /\ models[m].confidenceMultiplier >= MinMultiplier
        /\ models[m].confidenceMultiplier <= MaxMultiplier

\* A step that serves an approve or a reject request for submission id.
ReviewServed(id) ==
    /\ served' = served + 1
    /\ lastRes'.op \in {"approve", "reject"}
    /\ lastRes'.id = id

\* C5: a submission only moves from pending to approved or rejected; approve or
\* reject on a submission that is already approved or rejected fails with the
\* already-reviewed conflict and leaves the submission (status, reviewer
\* metadata) and the conversation as the first call left them.
C5_ReviewIsFinal ==
    [][\A id \in SubmissionIds :
          /\ submissions'[id].status # submissions[id].status =>
                 /\ submissions[id].status = "pending"
                 /\ submissions'[id].status \in {"approved", "rejected"}
          /\ submissions[id].status # "pending" =>
                 /\ submissions'[id] = submissions[id]
                 /\ ReviewServed(id) =>
                        /\ lastRes'.status = 400
                        /\ lastRes'.error = AlreadyError(submissions[id])
                        /\ entries' = entries
                        /\ analyses' = analyses]_vars

\* A reject of an approved submission has been refused.
C5_Witness ==
    /\ lastRes.op = "reject"
    /\ lastRes.status = 400
    /\ lastRes.id \in SubmissionIds
    /\ submissions[lastRes.id].status = "approved"
    /\ \E i \in 1..Len(entries) : entries[i].origin = <<"approve", lastRes.id>>

\* C7: content sent to the external submission endpoint only becomes a pending
\* submission: every Entry that stems from such content was created by the
\* approval of its submission.
C7_ExternalContentGated ==
    \A i \in 1..Len(entries) :
        /\ entries[i].origin[1] # "inbound"
        /\ entries[i].origin[1] = "approve" =>
               /\ entries[i].origin[2] \in SubmissionIds
               /\ submissions[entries[i].origin[2]].status = "approved"

\* C6: of the concurrent approve and reject requests on one pending submission
\* exactly one takes effect: at most one Entry is created from the submission,
\* and once every request has returned a rejected submission has no Entry.
C6_OneReviewTakesEffect ==
    \A id \in SubmissionIds :
        /\ Cardinality(EntriesFromApproval(id)) <= 1
        /\ (reqs = <<>> /\ submissions[id].status = "rejected") => EntriesFromApproval(id) = {}

AnalysesOf(entryId, modelId) ==
    {i \in 1..Len(analyses) : analyses[i].conversationEntryId = entryId /\ analyses[i].modelId = modelId}

\* C8: once the pass for a new Entry is over there is exactly one Analysis of
\* the Entry for each active persona, whatever the provider replied.  (No
\* request of Spec changes the set of active personas.)
C8_OneAnalysisPerPersona ==
    \A i \in 1..Len(entries) :
        entries[i].origin[1] \in {"direct", "approve"} =>
            \A m \in Range(getAllAiModels) : Cardinality(AnalysesOf(entries[i].id, m)) = 1

\* The request served last ran an analysis pass.
PassServed == lastRes.op \in {"entries", "approve"} /\ lastRes.status \notin {400, 404} /\ lastRes.id # 0

PassEntryId ==
    IF lastRes.op = "entries" THEN lastRes.id
    ELSE entries[CHOOSE i \in EntriesFromApproval(lastRes.id) : TRUE].id

\* C9: when the provider call of one persona fails during a pass, the request
\* still succeeds with its Entry created, and every persona of the pass whose
\* own call did not fail has its Analysis of that Entry.
C9_FailureIsIsolated ==
    PassServed =>
        /\ lastRes.status \in {200, 201}
        /\ \E i \in 1..Len(entries) : entries[i].id = PassEntryId
        /\ \A m \in DOMAIN lastRes.pass :
               lastRes.pass[m].kind # "error" => Cardinality(AnalysesOf(PassEntryId, m)) = 1

\* A pass in which the first persona's call failed and a later persona's row
\* was stored.
C9_Witness ==
    /\ PassServed
    /\ lastRes.op = "entries"
    /\ \E m, n \in DOMAIN lastRes.pass :
           /\ m < n
           /\ lastRes.pass[m].kind = "error"
           /\ lastRes.pass[n].kind = "json"
           /\ AnalysesOf(PassEntryId, n) # {}

\* C10: a provider call that never returns does not hold up its pass: every
\* pass in flight can go on (to the next persona, whose Analysis is then
\* recorded, and to its response), a pending call being ended by its timeout.
C10_HungCallDoesNotBlock ==
    \A q \in ReqIds : reqs[q].op = "entries" => ENABLED PostStep(q)

\* A second Rate on a rated analysis has been refused.
C2_Witness ==
    /\ lastRes.op = "rate"
    /\ lastRes.arg \in {-1, 1}
    /\ lastRes.error = "Already rated"
    /\ RatingsOf(lastRes.id) # {}

\* The analyses, made before entry e, that propose e's content for the persona
\* named as e's speaker.
ProposalsSpokenBy(e) ==
    {i \in 1..Len(analyses) :
        /\ analyses[i].conversationEntryId < e.id
        /\ analyses[i].proposedResponse = e.content
        /\ getAiModel(analyses[i].modelId) # Undefined
        /\ getAiModel(analyses[i].modelId).name = e.speaker}

\* C11: persona text enters the conversation by Trigger alone: every Entry
\* whose content is a persona's proposed response and whose speaker is that
\* persona's name was appended by a trigger of an analysis.
C11_OnlyTriggerSpeaks ==
    \A i \in 1..Len(entries) :
        ProposalsSpokenBy(entries[i]) # {} => entries[i].origin[1] = "trigger"

\* The names of the personas, active or not.
PersonaNameSet == {models[m].name : m \in ModelIds}

\* The human turns of the room since the Entry that persona m's active
\* analysis was made for.
HumanEntriesSince(roomId, m) ==
    LET active == latestActive(getAnalysesByRoom(roomId), m)
    IN  Cardinality({i \in 1..Len(entries) :
            /\ entries[i].roomId = roomId
            /\ entries[i].id > active.conversationEntryId
            /\ entries[i].speaker \notin PersonaNameSet})

\* The request served last read a view that decays confidence by staleness.
DecayedViewServed == lastRes.op \in {"philosophers", "dashboard"}

\* C12: the staleness a view uses for a persona's active analysis is the
\* number of Entries of the room after the analysis's Entry whose speaker is
\* not a persona; turns spoken by personas do not count.
C12_StalenessCountsHumanTurns ==
    DecayedViewServed =>
        \A i \in 1..Len(lastRes.body) :
            latestActive(getAnalysesByRoom(lastRes.id), lastRes.body[i].id) # Undefined =>
                lastRes.body[i].since = HumanEntriesSince(lastRes.id, lastRes.body[i].id)

\* The scenario of C13 for persona m: its active analysis has raw confidence 90,
\* its multiplier is 1.0, and the room has two Entries after the analysis's
\* Entry, the first spoken by Alice and the second under m's own name.
OwnTurnScenario(roomId, m) ==
    LET active == latestActive(getAnalysesByRoom(roomId), m)
        later == SelectSeq(getEntriesByRoom(roomId), LAMBDA x : x.id > active.conversationEntryId)
    IN  /\ active # Undefined
        /\ active.confidence = 90
        /\ models[m].confidenceMultiplier = DefaultMultiplier
        /\ Len(later) = 2
        /\ later[1].speaker = "Alice"
        /\ later[2].speaker = models[m].name

\* C13: in that scenario only Alice's Entry counts, the staleness is 1 and
\* the persona's effective confidence is 76.
C13_OwnTurnScenario ==
    DecayedViewServed =>
        \A i \in 1..Len(lastRes.body) :
            OwnTurnScenario(lastRes.id, lastRes.body[i].id) =>
                /\ lastRes.body[i].since = 1
                /\ lastRes.body[i].confidence = 76


\* C14: effective confidence is round(raw x max(0, 1 - 0.15 x staleness) x
\* multiplier), an integer nearest to that product and never negative; for raw
\* confidence 100 and multiplier 1.0 it is 100 at staleness 0, 40 at staleness
\* 4 and 0 from staleness 7 on.  The staleness is the one the view counted;
\* the multipliers of SpecDecay are whole thousandths, so the product is
\* exact in units of 1/100000.
C14_DecayByStaleness ==
    DecayedViewServed =>
        \A i \in 1..Len(lastRes.body) :
            LET row == lastRes.body[i]
                active == latestActive(getAnalysesByRoom(lastRes.id), row.id)
                remaining == IF 15 * row.since >= 100 THEN 0 ELSE 100 - 15 * row.since
                product == active.confidence * remaining * (row.multiplier \div 1000)
            IN  active # Undefined =>
                    /\ row.confidence >= 0
                    /\ row.confidence * 100000 - 50000 <= product
                    /\ product <= row.confidence * 100000 + 50000
                    /\ (active.confidence = 100 /\ row.multiplier = DefaultMultiplier) =>
                           /\ row.since = 0 => row.confidence = 100
                           /\ row.since = 4 => row.confidence = 40
                           /\ row.since >= 7 => row.confidence = 0

\* A view has reported 40 for a proposal of raw confidence 100, multiplier 1.0,
\* that is four human turns old.
C14_Witness ==
    /\ DecayedViewServed
    /\ \E i \in 1..Len(lastRes.body) :
           /\ latestActive(getAnalysesByRoom(lastRes.id), lastRes.body[i].id) # Undefined
           /\ latestActive(getAnalysesByRoom(lastRes.id), lastRes.body[i].id).confidence = 100
           /\ lastRes.body[i].multiplier = DefaultMultiplier
           /\ lastRes.body[i].since = 4
           /\ lastRes.body[i].confidence = 40

StatusViewServed == lastRes.op \in {"philosophers", "dashboard", "led-status"}

\* C16: a persona with no active analysis (none that is untriggered with a
\* non-empty proposal and a raw confidence above 0) is reported with effective
\* confidence 0 and no eligible response by every status view.
C16_NoActiveAnalysisIsSilent ==
    StatusViewServed =>
        \A i \in 1..Len(lastRes.body) :
            latestActive(getAnalysesByRoom(lastRes.id), lastRes.body[i].id) = Undefined =>
                /\ lastRes.body[i].confidence = 0
                /\ ~lastRes.body[i].hasResponse

\* The decayed effective confidence of persona m's active analysis: 0 without
\* one, else the raw confidence decayed by the human turns since its Entry and
\* scaled by the multiplier.
DecayedConfidence(roomId, m) ==
    LET active == latestActive(getAnalysesByRoom(roomId), m)
    IN  IF active = Undefined THEN 0
        ELSE effectiveConfidence(active.confidence, decayFactor(HumanEntriesSince(roomId, m)),
                                 models[m].confidenceMultiplier)

\* The request served last read a view that ranks the personas.
RankingViewServed == lastRes.op \in {"led-status", "dashboard"}

\* Row a is ranked before row b.
RankedBefore(a, b) == a.index # 0 /\ (b.index = 0 \/ a.index < b.index)

\* C17: the first min(3, N) personas by decayed effective confidence, ties in
\* the order of the personas, carry the distinct indices 1, 2, 3 in that order
\* and no other persona carries an index.
C17_TopThreeByDecayedConfidence ==
    RankingViewServed =>
        LET rows == lastRes.body
            N == Len(rows)
        IN  /\ {rows[i].index : i \in 1..N} \ {0} = 1..(IF N < 3 THEN N ELSE 3)
            /\ \A i, j \in 1..N : (i # j /\ rows[i].index # 0) => rows[i].index # rows[j].index
            /\ \A i, j \in 1..N :
                   (i # j /\ RankedBefore(rows[i], rows[j])) =>
                       \/ DecayedConfidence(lastRes.id, rows[i].id) > DecayedConfidence(lastRes.id, rows[j].id)
                       \/ /\ DecayedConfidence(lastRes.id, rows[i].id) = DecayedConfidence(lastRes.id, rows[j].id)
                          /\ rows[i].id < rows[j].id

\* A step that serves a Rate request for analysis a with success.
RateSucceeded(a) ==
    /\ served' = served + 1
    /\ lastRes'.op = "rate"
    /\ lastRes'.id = a
    /\ lastRes'.status = 201

\* C18: a successful Rate with -1 sets the owning persona's multiplier to
\* max(0.1, old x 0.8), one with +1 to min(1.5, old x 1.05) (to the nearest
\* millionth), and changes no other persona: the multiplier a rating finds is
\* the one the ratings and edits before it left.
C18_RateArithmetic ==
    [][\A a \in AnalysisIdInputs :
          (RateSucceeded(a) /\ getAnalysisById(a).modelId \in ModelIds) =>
              LET m == getAnalysisById(a).modelId
                  old == models[m].confidenceMultiplier
                  new == models'[m].confidenceMultiplier
              IN  /\ lastRes'.arg = -1 =>
                         IF 4 * old >= 5 * 100000
                         THEN 5 * new - 4 * old \in -2..2
                         ELSE new = 100000
                  /\ lastRes'.arg = 1 =>
                         IF 21 * old <= 20 * 1500000
                         THEN 20 * new - 21 * old \in -10..10
                         ELSE new = 1500000
                  /\ \A n \in ModelIds \ {m} : models'[n] = models[n]]_vars

\* Two thumbs down in a row have been applied to one persona: 1.0, 0.8, 0.64.
C18_Witness ==
    /\ lastRes.op = "rate"
    /\ lastRes.status = 201
    /\ lastRes.arg = -1
    /\ \E i, j \in 1..Len(ratings) :
           /\ i < j
           /\ ratings[i].modelId = ratings[j].modelId
           /\ ratings[i].rating = -1
           /\ ratings[j].rating = -1
           /\ ratings[j].analysisId = lastRes.id
           /\ getAiModel(ratings[j].modelId).confidenceMultiplier = 640000

\* C19: a Rate call whose rating is not -1 or +1 (0 and a missing value
\* included) fails, with a validation error when its analysis exists and has
\* no rating yet, and every persisted Rating has the value -1 or +1.
C19_RatingIsThumbUpOrDown ==
    /\ (lastRes.op = "rate" /\ lastRes.arg \notin {-1, 1}) => lastRes.status \in {400, 404}
    /\ \A i \in 1..Len(ratings) : ratings[i].rating \in {-1, 1}

\* A step that serves a reset of room r.
ResetServed(r) ==
    /\ served' = served + 1
    /\ lastRes'.op = "reset"
    /\ lastRes'.id = r

\* The rows of a table that belong to other rooms than r, in table order.
Elsewhere(rows, r) == SelectSeq(rows, LAMBDA x : x.roomId # r)

\* C20: a reset of room r leaves no Entry, Analysis or OutboundCall of r and
\* changes nothing else: the rows of every other room, the personas with their
\* active flags and multipliers, the latency logs, the ratings and the
\* moderation queue are as they were.
C20_ResetDeletesOneRoom ==
    [][\A r \in Rooms :
          ResetServed(r) =>
              /\ \A i \in 1..Len(entries') : entries'[i].roomId # r
              /\ \A i \in 1..Len(analyses') : analyses'[i].roomId # r
              /\ \A i \in 1..Len(calls') : calls'[i].roomId # r
              /\ Elsewhere(entries', r) = Elsewhere(entries, r)
              /\ Elsewhere(analyses', r) = Elsewhere(analyses, r)
              /\ Elsewhere(calls', r) = Elsewhere(calls, r)
              /\ models' = models
              /\ latencyLogs' = latencyLogs
              /\ ratings' = ratings
              /\ submissions' = submissions]_vars

\* A room has been reset while another room keeps its Entries and Analyses,
\* a persona keeps the multiplier a rating gave it and the latency logs keep
\* the rows of the room's analysis passes.
C20_Witness ==
    /\ lastRes.op = "reset"
    /\ Len(entries) < nextEntryId - 1
    /\ \A i \in 1..Len(entries) : entries[i].roomId # lastRes.id
    /\ entries # <<>>
    /\ analyses # <<>>
    /\ \E m \in ModelIds : models[m].confidenceMultiplier # DefaultMultiplier
    /\ \E i \in 1..Len(latencyLogs) : latencyLogs[i].roomId = lastRes.id

\* The approve request served last went through: its Entry is in the
\* conversation and its overrides are on record.
ApproveServed == lastRes.op = "approve" /\ lastRes.status = 200

\* C21: the Entry a successful approve creates has the speaker override as its
\* speaker when a (non-empty) one is given and the submission's speaker
\* otherwise, and likewise, independently, for its content.
C21_ApproveOverrides ==
    ApproveServed =>
        /\ Cardinality(EntriesFromApproval(lastRes.id)) = 1
        /\ \A i \in EntriesFromApproval(lastRes.id) :
              /\ entries[i].speaker = IF lastRes.arg[1] \in {Null, ""}
                                      THEN submissions[lastRes.id].speaker
                                      ELSE lastRes.arg[1]
              /\ entries[i].content = IF lastRes.arg[2] \in {Null, ""}
                                      THEN submissions[lastRes.id].content
                                      ELSE lastRes.arg[2]
              /\ entries[i].roomId = submissions[lastRes.id].roomId

\* An approve with a speaker override and no content override has created
\* its Entry.
C21_Witness ==
    /\ ApproveServed
    /\ lastRes.arg = <<"Bob", Null>>
    /\ \E i \in EntriesFromApproval(lastRes.id) :
          entries[i].speaker = "Bob" /\ entries[i].content = submissions[lastRes.id].content

\* A step in which the wrapped call of handler q settles.
CallSettles(q) ==
    /\ q \in DOMAIN reqs /\ q \in DOMAIN reqs'
    /\ reqs[q].op = "entries" /\ reqs'[q].op = "entries"
    /\ reqs'[q].settled = reqs[q].settled + 1

\* C22: when a wrapped call settles, the handler gets what the call settled
\* with, its result (the loop goes on to store it) or its exception (the loop
\* goes on to the next persona), and exactly one write of a latency row is
\* issued, for the persona called, with success set iff the call returned.
C22_WrapperIsTransparent ==
    [][\A q \in ReqIds :
          CallSettles(q) =>
              /\ IF reqs'[q].fn = Thrown
                 THEN /\ reqs'[q].pc = "analyzeConversation"
                      /\ reqs'[q].personas = Tail(reqs[q].personas)
                      /\ reqs'[q].result = reqs[q].result
                 ELSE /\ reqs'[q].pc = "createModelAnalysis"
                      /\ reqs'[q].result = reqs'[q].fn
              /\ Len(reqs') = Len(reqs) + 1
              /\ \A i \in ReqIds : i # q => reqs'[i] = reqs[i]
              /\ reqs'[Len(reqs')] = WriteReq([roomId |-> reqs[q].roomId,
                                               modelId |-> Head(reqs[q].personas),
                                               success |-> reqs'[q].fn # Thrown])
              /\ latencyLogs' = latencyLogs]_vars

\* One call of a pass has thrown and one has returned, and their rows say so.
C22_Witness ==
    /\ \E i \in 1..Len(latencyLogs) : ~latencyLogs[i].success
    /\ \E w \in ReqIds : reqs[w].op = "createLatencyLog" /\ reqs[w].row.success
    /\ \E q \in ReqIds : reqs[q].op = "entries" /\ reqs[q].settled = 2 /\ reqs[q].fn # Thrown

\* The inserts of latency rows in flight.
Writes == SelectSeq(reqs, LAMBDA r : r.op = "createLatencyLog")

\* A step in which the insert of a latency row is rejected: it is no longer
\* in flight and its row is not in the table.
WriteFails == Len(Writes') < Len(Writes) /\ latencyLogs' = latencyLogs

\* The personas of the request served last whose analysis is stored.
AnalysedFor(entryId) == {analyses[i].modelId : i \in {j \in 1..Len(analyses) : analyses[j].conversationEntryId = entryId}}

\* C23: a rejected insert of a latency row changes nothing that a handler
\* reads or has: the store, the responses and every handler in flight are as
\* they were; and no handler waits for an insert, whether it is in flight or
\* has been rejected: each can take its next step.
C23_LogFailureIsHarmless ==
    /\ [][WriteFails =>
             /\ UNCHANGED <<store, lastRes, served>>
             /\ Handlers' = Handlers
             /\ Len(Writes') = Len(Writes) - 1]_vars
    /\ [](\A q \in ReqIds : reqs[q].op = "entries" => ENABLED PostStep(q))

\* A request has been answered with the Analyses of both personas stored
\* although no latency row of its pass was saved.
C23_Witness ==
    /\ lastRes.op = "entries" /\ lastRes.status = 201
    /\ reqs = <<>>
    /\ latencyLogs = <<>>
    /\ AnalysedFor(lastRes.id) = Range(getAllAiModels)

\* C24: a completion asked for a model identifier that is not in the mapping
\* ends with an error and has issued no request to a backend.
C24_UnknownModelFailsFast ==
    (lastRes.op = "chatCompletion" /\ ~isValidModel(lastRes.arg)) =>
        /\ lastRes.status = 500
        /\ lastRes.body = <<>>

\* The row of analyses' with the id of a, or Undefined.
After(a) ==
    LET hit == SelectSeq(analyses', LAMBDA x : x.id = a.id)
    IN  IF hit = <<>> THEN Undefined ELSE hit[1]

\* C25: in every step, each persisted Analysis either stays as it is, or has
\* its triggered flag go from false to true and nothing else change, or is
\* removed by a reset of its room.
C25_AnalysisOnlyGetsTriggered ==
    [][\A i \in 1..Len(analyses) :
          LET a == analyses[i]
          IN  \/ After(a) = a
              \/ ~a.isTriggered /\ After(a) = [a EXCEPT !.isTriggered = TRUE]
              \/ /\ After(a) = Undefined
                 /\ served' = served + 1
                 /\ lastRes'.op = "reset"
                 /\ lastRes'.id = a.roomId]_vars

\* C26: no step deletes a persona record or changes its name; deleting a
\* persona and seeding at start-up keep every record with its multiplier and
\* the ratings; and a pass creates Analyses only for personas that are active
\* when it runs.
C26_PersonasAreNeverDeleted ==
    [][/\ \A m \in ModelIds : m \in ModelIds' /\ models'[m].name = models[m].name
       /\ (served' = served + 1 /\ lastRes'.op \in {"deleteModel", "seedDatabase"}) =>
              /\ \A m \in ModelIds : models'[m].confidenceMultiplier = models[m].confidenceMultiplier
              /\ ratings' = ratings
       /\ \A j \in 1..Len(analyses') :
              analyses'[j].id >= nextAnalysisId =>
                  /\ analyses'[j].modelId \in ModelIds
                  /\ models[analyses'[j].modelId].isActive]_vars

\* C27: the LED status view reports, for every active persona, a brightness
\* within 0..255, in descending order of confidence, with the indices 1, 2, 3
\* on the first three rows and none on the others.
C27_LedBrightnessAndIndices ==
    lastRes.op = "led-status" =>
        /\ {lastRes.body[i].id : i \in 1..Len(lastRes.body)} = Range(getAllAiModels)
        /\ \A i \in 1..Len(lastRes.body) :
              /\ lastRes.body[i].brightness \in 0..FullBrightness
              /\ lastRes.body[i].index = IF i <= 3 THEN i ELSE 0
              /\ \A j \in 1..Len(lastRes.body) :
                    i < j => lastRes.body[i].confidence >= lastRes.body[j].confidence

\* A step that serves a Trigger request for analysis a.
TriggerServed(a) ==
    /\ served' = served + 1
    /\ lastRes'.op = "trigger"
    /\ lastRes'.id = a

RowsOf(a) == {i \in 1..Len(analyses) : analyses[i].id = a}

\* C28: a Trigger fails, with 404, when there is no Analysis of the id, and it
\* fails when the Analysis has no proposed response or when the persona the
\* Analysis belongs to does not exist; a Trigger that fails creates no Entry
\* and no OutboundCall and changes the triggered flag of no Analysis.
C28_FailedTriggerCreatesNothing ==
    [][\A a \in AnalysisIdInputs :
          TriggerServed(a) =>
              /\ RowsOf(a) = {} => lastRes'.status = 404
              /\ \A i \in RowsOf(a) :
                    (Falsy(analyses[i].proposedResponse) \/ getAiModel(analyses[i].modelId) = Undefined)
                        => lastRes'.status \in {400, 404}
              /\ lastRes'.status # 201 =>
                    /\ entries' = entries
                    /\ calls' = calls
                    /\ analyses' = analyses]_vars

\* A Trigger of an Analysis without a proposed response has been refused.
C28_Witness ==
    /\ lastRes.op = "trigger"
    /\ lastRes.status = 400
    /\ \E i \in RowsOf(lastRes.id) : Falsy(analyses[i].proposedResponse)
    /\ entries # <<>>

\* C29: a Trigger that succeeds sets the triggered flag of its Analysis and of
\* no other, appends one Entry to the room of the Analysis, spoken by the
\* persona of the Analysis and carrying its proposed response, appends one
\* OutboundCall for the same persona and room with the rationale and the
\* proposed response of the Analysis, creates no Analysis and leaves every
\* persona, multipliers included, as it was.
C29_TriggerEffects ==
    [][\A a \in AnalysisIdInputs :
          (TriggerServed(a) /\ lastRes'.status = 201) =>
              \E i \in RowsOf(a) :
                  /\ analyses' = [analyses EXCEPT ![i].isTriggered = TRUE]
                  /\ Len(entries') = Len(entries) + 1
                  /\ SubSeq(entries', 1, Len(entries)) = entries
                  /\ entries'[Len(entries')].roomId = analyses[i].roomId
                  /\ entries'[Len(entries')].speaker = models[analyses[i].modelId].name
                  /\ entries'[Len(entries')].content = analyses[i].proposedResponse
                  /\ Len(calls') = Len(calls) + 1
                  /\ SubSeq(calls', 1, Len(calls)) = calls
                  /\ calls'[Len(calls')].roomId = analyses[i].roomId
                  /\ calls'[Len(calls')].modelId = analyses[i].modelId
                  /\ calls'[Len(calls')].triggerReason = analyses[i].analysis
                  /\ calls'[Len(calls')].responseContent = analyses[i].proposedResponse
                  /\ lastRes'.pass = NoPass
                  /\ nextAnalysisId' = nextAnalysisId
                  /\ models' = models
                  /\ ratings' = ratings]_vars

\* An Analysis has been triggered while another Analysis stays untriggered and
\* a rating has moved a multiplier.
C29_Witness ==
    /\ lastRes.op = "trigger"
    /\ lastRes.status = 201
    /\ \E i \in 1..Len(analyses) : ~analyses[i].isTriggered /\ ~Falsy(analyses[i].proposedResponse)
    /\ \E m \in ModelIds : models[m].confidenceMultiplier # DefaultMultiplier

\* The Analysis a is the eligible response of its persona: it is the persona's
\* active analysis in its room and the panel shows it with an effective
\* confidence above 50.
EligibleResponse(a) ==
    \E i \in RowsOf(a) :
        LET active == latestActive(getAnalysesByRoom(analyses[i].roomId), analyses[i].modelId)
        IN  /\ analyses[i].modelId \in ModelIds
            /\ active # Undefined
            /\ active.id = a
            /\ AiModelPanel(analyses[i].roomId, analyses[i].modelId).hasResponse

\* C30: a Trigger request for an Analysis that is not, at that moment, the
\* eligible response of its persona (decayed, of low confidence, superseded or
\* triggered already) creates no Entry.
C30_TriggerOnlyWhenEligible ==
    [][\A a \in AnalysisIdInputs :
          (TriggerServed(a) /\ ~EligibleResponse(a)) => entries' = entries]_vars

\* The rows stored for an output that could not be parsed.
ParseFailures == {i \in 1..Len(analyses) : analyses[i].analysis = "Failed to parse response"}

PassStep == served' = served + 1 /\ lastRes'.op = "entries" /\ lastRes'.id # 0

CallsIn(rows, r) == Len(SelectSeq(rows, LAMBDA c : c.roomId = r))

\* C32: an analysis pass appends no Entry besides the one posted, creates no
\* OutboundCall, sets no triggered flag and changes no persona; so the
\* OutboundCalls of a room change only by a Trigger that succeeds, which adds
\* one, and by a reset of the room, which leaves none.
C32_PassOnlyCreatesAnalyses ==
    /\ [][PassStep =>
             /\ Len(entries') = Len(entries) + 1
             /\ calls' = calls
             /\ SubSeq(analyses', 1, Len(analyses)) = analyses
             /\ \A i \in 1..Len(analyses') : i > Len(analyses) => ~analyses'[i].isTriggered
             /\ models' = models]_vars
    /\ [][\A r \in Rooms :
             CallsIn(calls', r) # CallsIn(calls, r) =>
                 \/ /\ lastRes'.op = "trigger" /\ lastRes'.status = 201
                    /\ CallsIn(calls', r) = CallsIn(calls, r) + 1
                 \/ /\ lastRes' = Res("reset", r, 200, "")
                    /\ CallsIn(calls', r) = 0]_vars

\* C33: every Analysis in the store has a raw confidence from 0 to 100,
\* whatever the provider answered, and so no persona's effective confidence
\* in the status view is above 150.
C33_RawConfidenceInRange ==
    /\ \A i \in 1..Len(analyses) : analyses[i].confidence \in 0..100
    /\ \A r \in Rooms, m \in ModelIds : PhilosopherStatus(r, m).confidence <= 150

\* C34: a Rate call for an id that names no Analysis fails with 404, a Rate
\* call that fails persists no Rating and changes no multiplier, and a Rating
\* is created only for an Analysis that has been triggered.
C34_RateNeedsTriggeredAnalysis ==
    [][\A a \in AnalysisIdInputs :
          RateServed(a) =>
              /\ (getAnalysisById(a) = Undefined /\ ~AlreadyRated(a)) => lastRes'.status = 404
              /\ lastRes'.status # 201 => ratings' = ratings /\ models' = models
              /\ ratings' # ratings => getAnalysisById(a) # Undefined /\ getAnalysisById(a).isTriggered]_vars

\* C35: in every state the status view of the server and the panel of the
\* client give every active persona the same effective confidence and the
\* same eligibility.
C35_ServerAndClientAgree ==
    \A r \in Rooms, m \in Range(getAllAiModels) :
        /\ PhilosopherStatus(r, m).confidence = AiModelPanel(r, m).confidence
        /\ PhilosopherStatus(r, m).hasResponse = AiModelPanel(r, m).hasResponse

\* The ratings stored for persona m, in the order of their creation.
RatingsFor(m) == SelectSeq(ratings, LAMBDA r : r.modelId = m)

\* C36: once two Rate requests on two different analyses of one persona have
\* both been served, however their steps interleaved, the persona's multiplier
\* is the one that the two adjustments give when applied one after the other.
C36_ConcurrentRatesBothCount ==
    reqs = <<>> =>
        \A m \in ModelIds :
            (Len(RatingsFor(m)) = 2 /\ RatingsFor(m)[1].analysisId # RatingsFor(m)[2].analysisId) =>
                models[m].confidenceMultiplier \in
                    {NewMultiplier(NewMultiplier(DefaultMultiplier, RatingsFor(m)[1].rating), RatingsFor(m)[2].rating),
                     NewMultiplier(NewMultiplier(DefaultMultiplier, RatingsFor(m)[2].rating), RatingsFor(m)[1].rating)}

\* C37: a Trigger of an Analysis that exists, is untriggered, has a proposed
\* response and belongs to an existing persona succeeds, in whichever room the
\* Analysis is, and its Entry is appended to the room of the Analysis.
C37_TriggerInEveryRoom ==
    [][\A a \in AnalysisIdInputs :
          TriggerServed(a) =>
              \A i \in RowsOf(a) :
                  (/\ ~analyses[i].isTriggered
                   /\ ~Falsy(analyses[i].proposedResponse)
                   /\ getAiModel(analyses[i].modelId) # Undefined) =>
                      /\ lastRes'.status = 201
                      /\ Len(entries') = Len(entries) + 1
                      /\ entries'[Len(entries')].roomId = analyses[i].roomId]_vars

\* C38: right after a Trigger has succeeded for the active analysis of a
\* persona, neither the status view nor the panel shows an eligible response
\* for that persona: an older untriggered Analysis does not take its place.
C38_TriggeredPersonaFallsSilent ==
    [][\A a \in AnalysisIdInputs :
          (TriggerServed(a) /\ lastRes'.status = 201) =>
              \A i \in RowsOf(a) :
                  latestActive(getAnalysesByRoom(analyses[i].roomId), analyses[i].modelId) = analyses[i] =>
                      /\ ~(PhilosopherStatus(analyses[i].roomId, analyses[i].modelId).hasResponse)'
                      /\ ~(AiModelPanel(analyses[i].roomId, analyses[i].modelId).hasResponse)']_vars

\* C39: in every state, with resets, analysis passes and triggers of a room in
\* flight together, every Analysis references an Entry that exists in its
\* room; and a handler that started before a reset was over writes no Entry,
\* no Analysis and no OutboundCall once that reset has completed.
C39_ResetIsClean ==
    /\ [](\A i \in 1..Len(analyses) :
             \E j \in 1..Len(entries) :
                 /\ entries[j].id = analyses[i].conversationEntryId
                 /\ entries[j].roomId = analyses[i].roomId)
    /\ [][\A q \in ReqIds :
             (reqs[q].op \in {"trigger", "entries"} /\ reqs[q].stale /\ (TriggerStep(q) \/ PostStep(q))) =>
                 /\ Len(entries') <= Len(entries)
                 /\ Len(analyses') <= Len(analyses)
                 /\ Len(calls') <= Len(calls)]_vars
====
